---- MODULE Spec2Model ----
(***************************************************************************)
(* Model of the IAS LPRF IEEE 802.15.4 SPI driver (src/lprf.c).            *)
(*                                                                         *)
(* The chip has no interrupt pin: the driver polls one status byte and     *)
(* reacts to it through a chain of asynchronous SPI completion callbacks.  *)
(*                                                                         *)
(* Execution contexts of the model:                                        *)
(*   "spi"    the SPI core's message pump, in which every completion       *)
(*            callback runs; messages complete in the order they were      *)
(*            queued with spi_async(), one callback at a time;             *)
(*   "timer"  the hrtimer callback lprf_start_poll();                      *)
(*   "net"    the network stack calling start / stop / xmit;               *)
(*   "chr"    a user process writing to the debug character device.        *)
(* The timer and process contexts run concurrently with the SPI context.   *)
(* The two atomic operations of a guard acquisition (atomic_inc_return,    *)
(* then the test and atomic_dec or the dispatch) are separate steps.       *)
(***************************************************************************)
EXTENDS Integers, Sequences, FiniteSets, TLC

(***************************************************************************)
(* Bit arithmetic on bytes                                                 *)
(***************************************************************************)
RECURSIVE BitAnd(_, _)
BitAnd(a, b) ==
    IF a = 0 \/ b = 0 THEN 0
    ELSE (a % 2) * (b % 2) + 2 * BitAnd(a \div 2, b \div 2)

ShiftR(a, n) == a \div (2 ^ n)

ShiftL(a, n) == a * (2 ^ n)

RECURSIVE BitOr(_, _)
BitOr(a, b) ==
    IF a = 0 THEN b
    ELSE IF b = 0 THEN a
    ELSE (IF a % 2 = 1 \/ b % 2 = 1 THEN 1 ELSE 0)
         + 2 * BitOr(a \div 2, b \div 2)

RECURSIVE BitXor(_, _)
BitXor(a, b) ==
    IF a = 0 THEN b
    ELSE IF b = 0 THEN a
    ELSE (((a % 2) + (b % 2)) % 2) + 2 * BitXor(a \div 2, b \div 2)

\* the store of an int into a uint8_t
U8(x) == x % 256

\* ~x stored into a uint8_t
BitNot8(x) == 255 - x

Bit(x, i) == (x \div (2 ^ i)) % 2

Bytes == 0 .. 255

(***************************************************************************)
(* src/lprf.h: decoding of the physical status byte                        *)
(***************************************************************************)
\* faulty variant: a mask that leaves out bit 7
PHY_SM_STATUS_two_bits(phy_status) == ShiftR(BitAnd(phy_status, 96), 5)

PHY_SM_STATUS(phy_status) == ShiftR(BitAnd(phy_status, 224), 5)

PHY_SM_ENABLE(phy_status) == ShiftR(BitAnd(phy_status, 16), 4)

\* faulty variant: the mask of the neighbouring bit
PHY_FIFO_EMPTY_mask4(phy_status) == ShiftR(BitAnd(phy_status, 4), 2)

PHY_FIFO_EMPTY(phy_status) == ShiftR(BitAnd(phy_status, 8), 3)

PHY_FIFO_FULL(phy_status) == ShiftR(BitAnd(phy_status, 4), 2)

PHY_SM_DEEPSLEEP == 1
PHY_SM_SLEEP == 2
PHY_SM_BUSY == 3
PHY_SM_TX_RDY == 4
PHY_SM_SENDING == 5
PHY_SM_RX_RDY == 6
PHY_SM_RECEIVING == 7

\* every value the chip can put on the bus for a one-byte status read
StatusBytes == 0 .. 255

\* the status bytes with the bits that no decision reads (enable, fifo_full
\* and the two reserved bits: mask 0x17) all clear or all set: every state
\* code with either value of fifo_empty, among them 0x40 and 0x48
ChipStatus == {s \in StatusBytes : BitAnd(s, 23) \in {0, 23}}

(***************************************************************************)
(* Atomic counters (linux/atomic.h as used by the two guards)              *)
(***************************************************************************)
atomic_inc_return(v) == v + 1

atomic_dec(v) == v - 1

\* the test "atomic_inc_return(&guard) != 1" of both guards, negated
\* faulty variant: any positive count is taken for an acquisition
GuardAcquired_any(ret) == ret >= 1

GuardAcquired(ret) == ret = 1

(***************************************************************************)
(* Execution contexts                                                      *)
(***************************************************************************)
Ctx == {"timer", "net", "chr", "spi"}

NULL == "NULL"

VARIABLES
    is_active,              \* lprf->phy_status.is_active (poll guard)
    transition_in_progress, \* lprf->state_change.transition_in_progress
    to_state,               \* lprf->state_change.to_state
    tx_complete,            \* lprf->state_change.tx_complete
    tx_skb,                 \* lprf->tx_skb: NULL or the submitter of the frame
    free_skb,               \* lprf->free_skb
    rx_polling_active,      \* lprf->rx_polling_active
    reset_counter,          \* static int reset_counter of lprf_rx_resets()
    sc_complete,            \* state_change.spi_message.complete
    spi_queue,              \* messages handed to spi_async(), oldest first
    timer,                  \* rx_polling_timer: "off" or the armed interval
    poll_ret,               \* per context: value atomic_inc_return() gave
                            \* inside lprf_phy_status_async(), 0 outside it
    wr_log,                 \* SPI messages dispatched by the transition that
                            \* runs or has just ended: <<address, value>>
    wr_done,                \* how many of them have completed
    chain,                  \* kind of the transition holding the guard
    last,                   \* what the handler that ran last did
    iface,                  \* what the network stack did last with the
                            \* interface: "initial", "started", "stopped"
    tx_written,             \* the frame in tx_skb has been copied into a
                            \* frame write (lprf_start_frame_write)
    fail_left,              \* how many more calls of spi_async() may fail
    fail_next,              \* how many of the next calls of spi_async()
                            \* return an error
    split_arm,              \* lprf_start_polling_timer() can be overtaken
                            \* between its atomic_read and its hrtimer_start
    arming,                 \* the interval of a hrtimer_start that is due
                            \* after the atomic_read, "none" otherwise
    early_left,             \* how many more invocations of lprf_rx_resets()
                            \* are overtaken between the dispatch of their
                            \* write and their update of reset_counter
    stepping,               \* the updates of reset_counter that are due
                            \* after a dispatch: "inc" or "zero" each
    g_ctr, g_pc, g_ret,     \* guard acquisition in isolation (see GuardSpec)
    codec                   \* the data path in isolation (see CodecSpec):
                            \* the function applied last, its input and
                            \* its result

drv_vars == <<is_active, transition_in_progress, to_state, tx_complete, tx_skb,
              free_skb, rx_polling_active, reset_counter, sc_complete,
              spi_queue, timer, poll_ret, wr_log, wr_done, chain, last,
              iface, tx_written, fail_left, fail_next, split_arm, arming,
              early_left, stepping>>

guard_vars == <<g_ctr, g_pc, g_ret>>

vars == <<drv_vars, guard_vars, codec>>

(***************************************************************************)
(* The state a handler works on, as one record, so that the C functions    *)
(* can be written as operators that call each other.  acts lists the       *)
(* branch functions the handler has called; acquired, status_seen and      *)
(* skb_test record what lprf_evaluate_phy_status() saw, released how       *)
(* lprf_tx_complete() disposed of the frame.                               *)
(***************************************************************************)
World ==
    [is_active |-> is_active,
     transition_in_progress |-> transition_in_progress,
     to_state |-> to_state,
     tx_complete |-> tx_complete,
     tx_skb |-> tx_skb,
     free_skb |-> free_skb,
     rx_polling_active |-> rx_polling_active,
     reset_counter |-> reset_counter,
     sc_complete |-> sc_complete,
     spi_queue |-> spi_queue,
     timer |-> timer,
     wr_log |-> wr_log,
     wr_done |-> wr_done,
     chain |-> chain,
     iface |-> iface,
     tx_written |-> tx_written,
     fail_next |-> fail_next,
     split_arm |-> split_arm,
     arming |-> arming,
     early_left |-> early_left,
     stepping |-> stepping,
     acts |-> <<>>,
     acquired |-> FALSE,
     status_seen |-> 0,
     skb_test |-> NULL,
     released |-> "none"]

\* the first occurrence of x removed from the sequence s
RECURSIVE RemoveOne(_, _)
RemoveOne(s, x) ==
    IF s = <<>> THEN <<>>
    ELSE IF Head(s) = x THEN Tail(s)
    ELSE <<Head(s)>> \o RemoveOne(Tail(s), x)

Count(s, x) == Cardinality({i \in 1 .. Len(s) : s[i] = x})

(***************************************************************************)
(* SPI access                                                              *)
(***************************************************************************)
\* a value written to a whole register
RegValue(v) == [cached |-> "none", data |-> v]

\* src/lprf.c lprf_stop_polling
lprf_stop_polling(W) ==
    [W EXCEPT !.rx_polling_active = 0, !.timer = "off"]

\* spi_async() of the state_change message: queued behind what is in flight
spi_async_state_change(W) == [W EXCEPT !.spi_queue = Append(@, "sc")]

\* a call of spi_async() that returns an error: nothing is queued
spi_async_error(W) ==
    [W EXCEPT !.fail_next = @ - 1, !.acts = Append(@, "spi_async_error")]

RECURSIVE lprf_async_write_register(_, _, _, _)

\* src/lprf.c lprf_async_error
lprf_async_error(W) ==
    lprf_async_write_register(
        lprf_stop_polling([W EXCEPT !.acts = Append(@, "lprf_async_error")]),
        "RG_GLOBAL_RESETB", RegValue("0"), "lprf_async_error_recover")

\* src/lprf.c lprf_async_write_register
lprf_async_write_register(W, address, value, complete) ==
    LET W1 == [W EXCEPT !.sc_complete = complete] IN
    IF W1.fail_next > 0
    THEN lprf_async_error(spi_async_error(W1))
    ELSE spi_async_state_change(
             [W1 EXCEPT !.wr_log = Append(@, <<address, value>>)])

\* src/lprf.c lprf_async_error_recover
lprf_async_error_recover(W) ==
    lprf_async_write_register(W, "RG_GLOBAL_RESETB", RegValue("0xff"),
                              "lprf_async_error_recover_callback")

\* src/lprf.c lprf_async_write_subreg: reg_val = (cached_val & ~mask) |
\* (data << shift); address, mask and shift come with the sub-register name,
\* so the value is kept as the pair it is synthesized from
lprf_async_write_subreg(W, cached_val, subreg, data, complete) ==
    lprf_async_write_register(W, subreg,
                              [cached |-> cached_val, data |-> data], complete)

(***************************************************************************)
(* Polling timer                                                           *)
(***************************************************************************)
\* hrtimer_start(&lprf->rx_polling_timer, interval, HRTIMER_MODE_REL)
hrtimer_start(W, interval) == [W EXCEPT !.timer = interval, !.arming = "none"]

\* src/lprf.c lprf_start_polling_timer: the flag is read, then the timer is
\* started; with split_arm the start is a step of its own
lprf_start_polling_timer(W, interval) ==
    IF W.rx_polling_active # 0
    THEN IF W.split_arm
         THEN [W EXCEPT !.arming = interval]
         ELSE hrtimer_start(W, interval)
    ELSE W

(***************************************************************************)
(* Transmit path                                                           *)
(***************************************************************************)
\* faulty variant: the flag outlives the frame
lprf_tx_complete_keeps_flag(W) ==
    [W EXCEPT !.tx_skb = NULL,
              !.free_skb = FALSE,
              !.tx_written = FALSE,
              !.released = IF W.free_skb THEN "kfree_skb"
                           ELSE "ieee802154_xmit_complete",
              !.acts = Append(@, "lprf_tx_complete")]

\* src/lprf.c lprf_tx_complete
lprf_tx_complete(W) ==
    [W EXCEPT !.tx_skb = NULL,
              !.free_skb = FALSE,
              !.tx_complete = FALSE,
              !.tx_written = FALSE,
              !.released = IF W.free_skb THEN "kfree_skb"
                           ELSE "ieee802154_xmit_complete",
              !.acts = Append(@, "lprf_tx_complete")]

\* src/lprf.c lprf_tx_change_complete
lprf_tx_change_complete(W) ==
    lprf_start_polling_timer(
        [W EXCEPT !.tx_complete = TRUE,
                  !.transition_in_progress = atomic_dec(@),
                  !.chain = RemoveOne(@, "TX"),
                  !.acts = Append(@, "lprf_tx_change_complete")],
        "TX_RX_INTERVAL")

\* faulty variant: the frame write completion already raises tx_complete
lprf_frame_write_complete_flag(W) ==
    [lprf_async_write_subreg(W, "sm_main_value", "SR_SM_COMMAND",
                             "STATE_CMD_TX", "lprf_tx_change_complete")
        EXCEPT !.tx_complete = TRUE]

\* src/lprf.c __lprf_frame_write_complete
lprf_frame_write_complete(W) ==
    lprf_async_write_subreg(W, "sm_main_value", "SR_SM_COMMAND",
                            "STATE_CMD_TX", "lprf_tx_change_complete")

\* src/lprf.c lprf_start_frame_write: the frame built from tx_skb is handed
\* to spi_async() with __lprf_frame_write_complete as its callback
\* a failure of spi_async() is printed and nothing else
lprf_start_frame_write(W) ==
    LET W1 == [W EXCEPT !.sc_complete = "__lprf_frame_write_complete",
                        !.tx_written = TRUE]
    IN  IF W1.fail_next > 0
        THEN spi_async_error(W1)
        ELSE spi_async_state_change(
                 [W1 EXCEPT !.wr_log = Append(@, <<"FRMW",
                                                   RegValue(W.tx_skb)>>)])

\* faulty variant: the timer is armed at the interval of the TX path
lprf_rx_change_complete_tx_interval(W) ==
    lprf_start_polling_timer(
        [W EXCEPT !.transition_in_progress = atomic_dec(@),
                  !.chain = RemoveOne(@, "RX"),
                  !.acts = Append(@, "lprf_rx_change_complete")],
        "TX_RX_INTERVAL")

\* src/lprf.c lprf_rx_change_complete
lprf_rx_change_complete(W) ==
    lprf_start_polling_timer(
        [W EXCEPT !.transition_in_progress = atomic_dec(@),
                  !.chain = RemoveOne(@, "RX"),
                  !.acts = Append(@, "lprf_rx_change_complete")],
        "RX_RX_INTERVAL")

(***************************************************************************)
(* Receive path                                                            *)
(***************************************************************************)
\* src/lprf.c read_lprf_fifo
read_lprf_fifo(W) ==
    LET W1 == [W EXCEPT !.sc_complete = "__lprf_read_frame_complete",
                        !.chain = Append(@, "read"),
                        !.acts = Append(@, "read_lprf_fifo")]
    IN  IF W1.fail_next > 0
        THEN lprf_async_error(spi_async_error(W1))
        ELSE spi_async_state_change(
                 [W1 EXCEPT !.wr_log = Append(@, <<"FRMR",
                                                   RegValue("fifo")>>)])

(***************************************************************************)
(* Reset sequence and state changes                                        *)
(***************************************************************************)
\* how many invocations of lprf_rx_resets() are overtaken by the completion
\* of the write they dispatched
MaxEarly == 1

\* src/lprf.c lprf_rx_resets, "reset_counter++;" and "reset_counter = 0;"
reset_counter_update(W, update) ==
    [W EXCEPT !.reset_counter = IF update = "inc" THEN @ + 1 ELSE 0]

\* src/lprf.c lprf_rx_resets: the statement that follows the dispatch of the
\* write; while early_left lasts it is a step of its own, which the
\* completion of the write can overtake
lprf_rx_resets_advance(W, update) ==
    IF W.early_left > 0
    THEN [W EXCEPT !.early_left = @ - 1, !.stepping = Append(@, update)]
    ELSE reset_counter_update(W, update)

\* faulty variant: step 4 writes the RX command whatever the target
lprf_rx_resets_case4_rx_only(W) ==
    lprf_rx_resets_advance(
        lprf_async_write_subreg(W, "sm_main_value", "SR_SM_COMMAND",
                             "STATE_CMD_RX", "lprf_rx_resets"),
        "inc")

\* src/lprf.c lprf_rx_resets, case 4: the sequence diverts into the frame
\* write for a TX target and sends the RX command otherwise
lprf_rx_resets_case4(W) ==
    IF W.to_state = "STATE_CMD_TX"
    THEN lprf_rx_resets_advance(lprf_start_frame_write(W), "zero")
    ELSE lprf_rx_resets_advance(
        lprf_async_write_subreg(W, "sm_main_value", "SR_SM_COMMAND",
                                  "STATE_CMD_RX", "lprf_rx_resets"),
        "inc")

\* faulty variant: step 5 advances the counter like the steps before it
lprf_rx_resets_case5_noreset(W) ==
    lprf_rx_resets_advance(
        lprf_async_write_subreg(W, "sm_main_value", "SR_SM_COMMAND",
                             "STATE_CMD_NONE", "lprf_rx_change_complete"),
        "inc")

\* src/lprf.c lprf_rx_resets, case 5: the terminal step
lprf_rx_resets_case5(W) ==
    lprf_rx_resets_advance(
        lprf_async_write_subreg(W, "sm_main_value", "SR_SM_COMMAND",
                             "STATE_CMD_NONE", "lprf_rx_change_complete"),
        "zero")

\* src/lprf.c lprf_rx_resets: each case dispatches its write and then
\* advances (or resets) the static step counter
lprf_rx_resets(W) ==
    CASE W.reset_counter = 0 ->
            lprf_rx_resets_advance(
        lprf_async_write_register(W, "RG_SM_MAIN", RegValue("0x05"),
                                       "lprf_rx_resets"),
        "inc")
      [] W.reset_counter = 1 ->
            lprf_rx_resets_advance(
        lprf_async_write_register(W, "RG_SM_MAIN", RegValue("0x0F"),
                                       "lprf_rx_resets"),
        "inc")
      [] W.reset_counter = 2 ->
            lprf_rx_resets_advance(
        lprf_async_write_subreg(W, "dem_main_value", "SR_DEM_RESETB",
                                     "0", "lprf_rx_resets"),
        "inc")
      [] W.reset_counter = 3 ->
            lprf_rx_resets_advance(
        lprf_async_write_subreg(W, "dem_main_value", "SR_DEM_RESETB",
                                     "1", "lprf_rx_resets"),
        "inc")
      [] W.reset_counter = 4 -> lprf_rx_resets_case4(W)
      [] W.reset_counter = 5 -> lprf_rx_resets_case5(W)
      [] OTHER -> [W EXCEPT !.acts = Append(@, "internal_error")]

\* src/lprf.c lprf_async_state_change
lprf_async_state_change(W, state) ==
    LET W1 == [W EXCEPT !.to_state = state] IN
    CASE state = "STATE_CMD_RX" ->
            lprf_rx_resets([W1 EXCEPT !.chain = Append(@, "RX"),
                                      !.acts = Append(@, "state_change_RX")])
      [] state = "STATE_CMD_TX" ->
            lprf_async_write_subreg(
                [W1 EXCEPT !.chain = Append(@, "TX"),
                           !.acts = Append(@, "state_change_TX")],
                "sm_main_value", "SR_SM_COMMAND", "STATE_CMD_SLEEP",
                "lprf_rx_resets")
      [] OTHER -> W1

(***************************************************************************)
(* The decision function                                                   *)
(***************************************************************************)
\* src/lprf.c lprf_evaluate_phy_status, the test for a finished
\* transmission; the function goes on to the branches below
EvaluateFinalize(W, phy_status) ==
    IF PHY_SM_STATUS(phy_status) # PHY_SM_SENDING /\ W.tx_complete
    THEN lprf_tx_complete(W)
    ELSE W

\* faulty variant: the FIFO read branch lacks its return
EvaluateBranches_noreturn(W0, phy_status) ==
    LET sm_status == PHY_SM_STATUS(phy_status)
        fifo_empty == PHY_FIFO_EMPTY(phy_status)
        W1 == [W0 EXCEPT !.skb_test = W0.tx_skb]
        W == IF sm_status = PHY_SM_SLEEP /\ fifo_empty = 0
             THEN read_lprf_fifo(W1)
             ELSE W1
    IN  IF W.tx_skb # NULL /\ fifo_empty # 0
        THEN lprf_async_state_change(W, "STATE_CMD_TX")
        ELSE IF sm_status = PHY_SM_SLEEP /\ fifo_empty # 0
        THEN lprf_async_state_change(W, "STATE_CMD_RX")
        ELSE lprf_start_polling_timer(
                 [W EXCEPT !.transition_in_progress = atomic_dec(@),
                           !.acts = Append(@, "reschedule")],
                 "RETRY_INTERVAL")

\* faulty variant: the last branch looks at the state only
EvaluateBranches_receiving_short(W0, phy_status) ==
    LET sm_status == PHY_SM_STATUS(phy_status)
        fifo_empty == PHY_FIFO_EMPTY(phy_status)
        W == [W0 EXCEPT !.skb_test = W0.tx_skb]
    IN  IF sm_status = PHY_SM_SLEEP /\ fifo_empty = 0
        THEN read_lprf_fifo(W)
        ELSE IF W.tx_skb # NULL /\ fifo_empty # 0
        THEN lprf_async_state_change(W, "STATE_CMD_TX")
        ELSE IF sm_status = PHY_SM_SLEEP /\ fifo_empty # 0
        THEN lprf_async_state_change(W, "STATE_CMD_RX")
        ELSE LET U == [W EXCEPT !.transition_in_progress = atomic_dec(@),
                                !.acts = Append(@, "reschedule")]
             IN  IF sm_status = PHY_SM_RECEIVING
                 THEN lprf_start_polling_timer(U, "RX_POLLING_INTERVAL")
                 ELSE lprf_start_polling_timer(U, "RETRY_INTERVAL")

\* src/lprf.c lprf_evaluate_phy_status, the branches that start an action
\* and return, and the last one that unlocks and rearms the timer
EvaluateBranches(W0, phy_status) ==
    LET sm_status == PHY_SM_STATUS(phy_status)
        fifo_empty == PHY_FIFO_EMPTY(phy_status)
        W == [W0 EXCEPT !.skb_test = W0.tx_skb]
    IN  IF sm_status = PHY_SM_SLEEP /\ fifo_empty = 0
        THEN read_lprf_fifo(W)
        ELSE IF W.tx_skb # NULL /\ fifo_empty # 0
        THEN lprf_async_state_change(W, "STATE_CMD_TX")
        ELSE IF sm_status = PHY_SM_SLEEP /\ fifo_empty # 0
        THEN lprf_async_state_change(W, "STATE_CMD_RX")
        ELSE LET U == [W EXCEPT !.transition_in_progress = atomic_dec(@),
                                !.acts = Append(@, "reschedule")]
             IN  IF sm_status = PHY_SM_RECEIVING
                 THEN IF fifo_empty # 0
                      THEN lprf_start_polling_timer(U, "RX_POLLING_INTERVAL")
                      ELSE lprf_start_polling_timer(U, "RETRY_INTERVAL")
                 ELSE lprf_start_polling_timer(U, "RETRY_INTERVAL")

\* faulty variant: the guard is taken without the test of its value
lprf_evaluate_phy_status_nolock(W0, phy_status) ==
    EvaluateBranches(
        EvaluateFinalize([W0 EXCEPT !.status_seen = phy_status,
                                    !.transition_in_progress =
                                        atomic_inc_return(@),
                                    !.acquired = TRUE],
                         phy_status),
        phy_status)

\* src/lprf.c lprf_evaluate_phy_status: try-lock, then decide
lprf_evaluate_phy_status(W0, phy_status) ==
    LET W == [W0 EXCEPT !.status_seen = phy_status]
        ret == atomic_inc_return(W.transition_in_progress)
    IN  IF ~GuardAcquired(ret)
        THEN [W EXCEPT !.transition_in_progress = atomic_dec(ret)]
        ELSE EvaluateBranches(
                 EvaluateFinalize([W EXCEPT !.transition_in_progress = ret,
                                            !.acquired = TRUE,
                                            !.wr_log = <<>>,
                                            !.wr_done = 0],
                                  phy_status),
                 phy_status)

\* src/lprf.c lprf_phy_status_complete: the byte is taken from rx_buf, the
\* poll guard is released, the byte is evaluated
lprf_phy_status_complete(W, rx_byte) ==
    LET status == rx_byte IN
    lprf_evaluate_phy_status([W EXCEPT !.is_active = atomic_dec(@)], status)

(***************************************************************************)
(* What a handler reports in the variable last                             *)
(***************************************************************************)
Report(op, ctx, W) ==
    [op |-> op, ctx |-> ctx, rx_byte |-> 0, status |-> 0,
     acquired |-> FALSE, flag_in |-> FALSE, skb_in |-> NULL,
     written_in |-> FALSE, skb_test |-> NULL, released |-> "none",
     acts |-> W.acts]

\* the report of a submission: skb_in is what lprf->tx_skb held when the
\* submitter stored its frame, or refused to
SubmitReport(op, ctx, W0, W) ==
    [Report(op, ctx, W) EXCEPT !.skb_in = W0.tx_skb]

\* the report of lprf_phy_status_complete: the byte the transfer read, the
\* byte evaluated, whether the transition guard was acquired, tx_complete,
\* tx_skb and tx_written on entry, tx_skb when the branches were tested, how a
\* finished frame was released, and the branch functions called
EvalReport(rx_byte, W0, W) ==
    [op |-> "lprf_phy_status_complete", ctx |-> "spi", rx_byte |-> rx_byte,
     status |-> W.status_seen,
     acquired |-> W.acquired,
     flag_in |-> W0.tx_complete,
     skb_in |-> W0.tx_skb,
     written_in |-> W0.tx_written,
     skb_test |-> W.skb_test,
     released |-> W.released,
     acts |-> W.acts]

\* no transition before or after the handler and no write in flight: the
\* log of writes starts afresh
Idle(W) == chain = <<>> /\ W.chain = <<>> /\ Count(W.spi_queue, "sc") = 0

\* the variables of the driver take their values from the record W
Commit(W) ==
    /\ is_active' = W.is_active
    /\ transition_in_progress' = W.transition_in_progress
    /\ to_state' = W.to_state
    /\ tx_complete' = W.tx_complete
    /\ tx_skb' = W.tx_skb
    /\ free_skb' = W.free_skb
    /\ rx_polling_active' = W.rx_polling_active
    /\ reset_counter' = W.reset_counter
    /\ sc_complete' = W.sc_complete
    /\ spi_queue' = W.spi_queue
    /\ timer' = W.timer
    /\ wr_log' = IF Idle(W) THEN <<>> ELSE W.wr_log
    /\ wr_done' = IF Idle(W) THEN 0 ELSE W.wr_done
    /\ chain' = W.chain
    /\ iface' = W.iface
    /\ tx_written' = W.tx_written
    /\ fail_next' = W.fail_next
    /\ arming' = W.arming
    /\ early_left' = W.early_left
    /\ stepping' = W.stepping
    /\ UNCHANGED <<fail_left, split_arm>>

(***************************************************************************)
(* lprf_phy_status_async in two steps                                      *)
(***************************************************************************)
\* src/lprf.c lprf_phy_status_async, the atomic_inc_return() of its test
PhyStatusAsyncEnter(W) == [W EXCEPT !.is_active = atomic_inc_return(@)]

\* faulty variant: the busy path keeps its increment
PhyStatusAsyncRest_nodec(W, ret) ==
    IF ~GuardAcquired(ret)
    THEN [W EXCEPT !.acts = Append(@, "EBUSY")]
    ELSE IF W.fail_next > 0
    THEN lprf_async_error(spi_async_error(W))
    ELSE [W EXCEPT !.spi_queue = Append(@, "phy"),
                   !.acts = Append(@, "status_read")]

\* src/lprf.c lprf_phy_status_async, from the test to the return: ret is
\* what atomic_inc_return() gave this caller
PhyStatusAsyncRest(W, ret) ==
    IF ~GuardAcquired(ret)
    THEN [W EXCEPT !.is_active = atomic_dec(@),
                   !.acts = Append(@, "EBUSY")]
    ELSE IF W.fail_next > 0
    THEN lprf_async_error(spi_async_error(W))
    ELSE [W EXCEPT !.spi_queue = Append(@, "phy"),
                   !.acts = Append(@, "status_read")]

\* faulty variant: a frame that is dropped ends the handler early
lprf_read_frame_complete_drop_returns(W, outcome) ==
    IF outcome = "frame_delivered"
    THEN [W EXCEPT !.transition_in_progress = atomic_dec(@),
                   !.chain = RemoveOne(@, "read"),
                   !.acts = Append(@, outcome)]
    ELSE [W EXCEPT !.acts = Append(@, outcome)]

\* src/lprf.c __lprf_read_frame_complete up to its call of
\* lprf_phy_status_async: the data is processed (outcome), the transition
\* guard is released
lprf_read_frame_complete(W, outcome) ==
    [W EXCEPT !.transition_in_progress = atomic_dec(@),
              !.chain = RemoveOne(@, "read"),
              !.acts = Append(@, outcome)]

(***************************************************************************)
(* The data path: bit order, start-of-frame delimiter, frame length.       *)
(* A buffer is a sequence of bytes; the C index i is the element i + 1.    *)
(***************************************************************************)
At(data, i) == data[i + 1]

\* error numbers of linux/errno.h as the driver returns them
ENOMEM == 12
EFAULT == 14
EINVAL == 22

\* faulty variant: the two nibbles are not exchanged
reverse_bit_order_pairs_only(byte) ==
    LET b1 == U8(BitOr(ShiftR(BitAnd(byte, 170), 1),
                       ShiftL(BitAnd(byte, 85), 1)))
    IN  U8(BitOr(ShiftR(BitAnd(b1, 204), 2), ShiftL(BitAnd(b1, 51), 2)))

\* src/lprf.c reverse_bit_order: three stores into the uint8_t
reverse_bit_order(byte) ==
    LET b1 == U8(BitOr(ShiftR(BitAnd(byte, 170), 1),
                       ShiftL(BitAnd(byte, 85), 1)))
        b2 == U8(BitOr(ShiftR(BitAnd(b1, 204), 2),
                       ShiftL(BitAnd(b1, 51), 2)))
    IN  U8(BitOr(ShiftR(b2, 4), ShiftL(b2, 4)))

\* reverse_bit_order of every byte, worked out once
Reversed == [byte \in Bytes |-> reverse_bit_order(byte)]

\* src/lprf.c preprocess_received_data: the first length bytes
preprocess_received_data(data, length) ==
    [k \in 1 .. Len(data) |->
        IF k <= length THEN BitNot8(Reversed[data[k]]) ELSE data[k]]

\* the loop of number_of_equal_bits over combined = ~differ: a bit of
\* combined is set where the bit of differ is clear
RECURSIVE CountLowBits(_, _)
CountLowBits(differ, number_of_bits) ==
    IF number_of_bits = 0 THEN 0
    ELSE (1 - (differ % 2)) + CountLowBits(differ \div 2, number_of_bits - 1)

\* src/lprf.c number_of_equal_bits: combined = ~(x1 ^ x2), then the count
\* of the set bits among the lowest number_of_bits
number_of_equal_bits(x1, x2, number_of_bits) ==
    CountLowBits(BitXor(x1, x2), number_of_bits)

\* the 16 bits data[i] << 8 | data[i + 1]
Pair(data, i) == BitOr(ShiftL(At(data, i), 8), At(data, i + 1))

\* src/lprf.c find_SFD_and_shift_data, the loop that moves the data to the
\* front: every read is ahead of every store
ShiftData(data, data_length, data_start_position, shift) ==
    [k \in 1 .. Len(data) |->
        IF k - 1 < data_length - data_start_position
        THEN U8(ShiftR(Pair(data, k - 1 + data_start_position), shift))
        ELSE data[k]]

\* faulty variant: the amounts of the two shifts are exchanged
find_SFD_and_shift_data_exchanged(data, data_length, sfd, preamble_length) ==
    LET sfd_start_postion == preamble_length - 1
        data_start_position == sfd_start_postion + 1
        no_shift == number_of_equal_bits(sfd, At(data, sfd_start_postion), 8)
        one_bit_shift ==
            number_of_equal_bits(sfd,
                                 ShiftR(Pair(data, sfd_start_postion), 7), 8)
        two_bit_shift ==
            number_of_equal_bits(sfd,
                                 ShiftR(Pair(data, sfd_start_postion), 6), 8)
        shift == IF one_bit_shift >= 7 THEN 8 - 2
                 ELSE IF two_bit_shift >= 7 THEN 8 - 1
                 ELSE 8
    IN  IF data_length < sfd_start_postion + 2
        THEN [ret |-> 0 - EFAULT, data |-> data, data_length |-> data_length]
        ELSE IF no_shift < 7 /\ one_bit_shift < 7 /\ two_bit_shift < 7
        THEN [ret |-> 0, data |-> data, data_length |-> data_length]
        ELSE [ret |-> shift,
              data |-> ShiftData(data, data_length, data_start_position,
                                 shift),
              data_length |-> data_length - (sfd_start_postion + 1)]

\* faulty variant: the delimiter is looked for behind all preamble_length
\* bytes
find_SFD_and_shift_data_full_preamble(data, data_length, sfd, preamble_length) ==
    LET sfd_start_postion == preamble_length
        data_start_position == sfd_start_postion + 1
        no_shift == number_of_equal_bits(sfd, At(data, sfd_start_postion), 8)
        one_bit_shift ==
            number_of_equal_bits(sfd,
                                 ShiftR(Pair(data, sfd_start_postion), 7), 8)
        two_bit_shift ==
            number_of_equal_bits(sfd,
                                 ShiftR(Pair(data, sfd_start_postion), 6), 8)
        shift == IF one_bit_shift >= 7 THEN 8 - 1
                 ELSE IF two_bit_shift >= 7 THEN 8 - 2
                 ELSE 8
    IN  IF data_length < sfd_start_postion + 2
        THEN [ret |-> 0 - EFAULT, data |-> data, data_length |-> data_length]
        ELSE IF no_shift < 7 /\ one_bit_shift < 7 /\ two_bit_shift < 7
        THEN [ret |-> 0, data |-> data, data_length |-> data_length]
        ELSE [ret |-> shift,
              data |-> ShiftData(data, data_length, data_start_position,
                                 shift),
              data_length |-> data_length - (sfd_start_postion + 1)]

\* faulty variant: the data is moved before the delimiter is judged
find_SFD_and_shift_data_moves_first(data, data_length, sfd, preamble_length) ==
    LET sfd_start_postion == preamble_length - 1
        data_start_position == sfd_start_postion + 1
        no_shift == number_of_equal_bits(sfd, At(data, sfd_start_postion), 8)
        one_bit_shift ==
            number_of_equal_bits(sfd,
                                 ShiftR(Pair(data, sfd_start_postion), 7), 8)
        two_bit_shift ==
            number_of_equal_bits(sfd,
                                 ShiftR(Pair(data, sfd_start_postion), 6), 8)
        shift == IF one_bit_shift >= 7 THEN 8 - 1
                 ELSE IF two_bit_shift >= 7 THEN 8 - 2
                 ELSE 8
    IN  IF data_length < sfd_start_postion + 2
        THEN [ret |-> 0 - EFAULT, data |-> data, data_length |-> data_length]
        ELSE IF no_shift < 7 /\ one_bit_shift < 7 /\ two_bit_shift < 7
        THEN [ret |-> 0,
              data |-> ShiftData(data, data_length, data_start_position,
                                 shift),
              data_length |-> data_length]
        ELSE [ret |-> shift,
              data |-> ShiftData(data, data_length, data_start_position,
                                 shift),
              data_length |-> data_length - (sfd_start_postion + 1)]

\* src/lprf.c find_SFD_and_shift_data: what it returns, the buffer and
\* *data_length afterwards
find_SFD_and_shift_data(data, data_length, sfd, preamble_length) ==
    LET sfd_start_postion == preamble_length - 1
        data_start_position == sfd_start_postion + 1
        no_shift == number_of_equal_bits(sfd, At(data, sfd_start_postion), 8)
        one_bit_shift ==
            number_of_equal_bits(sfd,
                                 ShiftR(Pair(data, sfd_start_postion), 7), 8)
        two_bit_shift ==
            number_of_equal_bits(sfd,
                                 ShiftR(Pair(data, sfd_start_postion), 6), 8)
        shift == IF one_bit_shift >= 7 THEN 8 - 1
                 ELSE IF two_bit_shift >= 7 THEN 8 - 2
                 ELSE 8
    IN  IF data_length < sfd_start_postion + 2
        THEN [ret |-> 0 - EFAULT, data |-> data, data_length |-> data_length]
        ELSE IF no_shift < 7 /\ one_bit_shift < 7 /\ two_bit_shift < 7
        THEN [ret |-> 0, data |-> data, data_length |-> data_length]
        ELSE [ret |-> shift,
              data |-> ShiftData(data, data_length, data_start_position,
                                 shift),
              data_length |-> data_length - (sfd_start_postion + 1)]

\* linux/ieee802154.h
IEEE802154_MTU == 127
IEEE802154_ACK_PSDU_LEN == 5
IEEE802154_MIN_PSDU_LEN == 9

ieee802154_is_valid_psdu_len(len) ==
    \/ len = IEEE802154_ACK_PSDU_LEN
    \/ len >= IEEE802154_MIN_PSDU_LEN /\ len <= IEEE802154_MTU

\* the delimiter and the preamble length lprf_receive_ieee802154_data
\* passes to find_SFD_and_shift_data
SFD == 229
PREAMBLE_LENGTH == 4

\* src/lprf.c lprf_receive_ieee802154_data: what it returns, what became
\* of the buffer, and the frame handed to ieee802154_rx_irqsafe (skb)
lprf_receive_ieee802154_data(buffer, buffer_length, alloc_ok) ==
    LET r == find_SFD_and_shift_data(buffer, buffer_length, SFD,
                                     PREAMBLE_LENGTH)
        declared == At(r.data, 0)
        frame_length == IF ieee802154_is_valid_psdu_len(declared)
                        THEN declared
                        ELSE IEEE802154_MTU
        Dropped(ret, outcome, len) ==
            [ret |-> ret, outcome |-> outcome, sfd |-> r,
             frame_length |-> len, skb |-> <<>>]
    IN  IF r.ret = 0
        THEN Dropped(0 - EINVAL, "sfd_not_found", 0)
        ELSE IF frame_length > r.data_length
        THEN Dropped(0 - EINVAL, "length_too_large", frame_length)
        ELSE IF ~alloc_ok
        THEN Dropped(0 - ENOMEM, "alloc_failure", frame_length)
        ELSE [ret |-> 0, outcome |-> "frame_delivered", sfd |-> r,
              frame_length |-> frame_length,
              skb |-> [k \in 1 .. frame_length |-> At(r.data, k)]]

\* src/lprf.c write_data_to_char_driver: what kfifo_in is given
write_data_to_char_driver(data, length, is_ready) ==
    IF is_ready THEN SubSeq(data, 1, length) ELSE <<>>

\* faulty variant: the debug interface is served after the delimiter has
\* been found, and only then
ReadFrameData_chr_after_sfd(rx_data, length, is_ready, alloc_ok) ==
    LET data == preprocess_received_data(rx_data, length)
        rx == lprf_receive_ieee802154_data(data, length, alloc_ok)
    IN  [corrected |-> SubSeq(data, 1, length),
         chr |-> IF rx.outcome = "sfd_not_found"
                 THEN <<>>
                 ELSE write_data_to_char_driver(rx.sfd.data,
                                                rx.sfd.data_length, is_ready),
         rx |-> rx]

\* src/lprf.c __lprf_read_frame_complete, what it does with the data of
\* the transfer: rx_data is rx_buf + 2, length is rx_buf[1]
ReadFrameData(rx_data, length, is_ready, alloc_ok) ==
    LET data == preprocess_received_data(rx_data, length)
        chr == write_data_to_char_driver(data, length, is_ready)
        rx == lprf_receive_ieee802154_data(data, length, alloc_ok)
    IN  [corrected |-> SubSeq(data, 1, length), chr |-> chr, rx |-> rx]

\* lprf_registers.h: the synchronization header is the preamble of 4 bytes
\* and the delimiter, the PHY header is the length byte
SYNC_HEADER(preamble) == <<preamble, preamble, preamble, preamble, SFD>>

PHY_HEADER_LENGTH == 1

\* faulty variant: the payload keeps its bit order
FrameWriteTxBuf_payload_as_is(payload, preamble) ==
    LET payload_length == Len(payload)
        frame_length == Len(SYNC_HEADER(preamble)) + PHY_HEADER_LENGTH
                        + payload_length
        header == SYNC_HEADER(preamble) \o <<U8(payload_length)>>
    IN  [cmd |-> "FRMW", frame_length |-> U8(frame_length),
         frame |-> [k \in 1 .. Len(header) |-> Reversed[header[k]]]
                   \o payload,
         len |-> frame_length + 2]

\* src/lprf.c lprf_start_frame_write, the message it builds in tx_buf:
\* tx_buf[0], tx_buf[1], the frame_length bytes from tx_buf[2] on, and
\* spi_transfer.len
FrameWriteTxBuf(payload, preamble) ==
    LET payload_length == Len(payload)
        frame_length == Len(SYNC_HEADER(preamble)) + PHY_HEADER_LENGTH
                        + payload_length
        plain == SYNC_HEADER(preamble) \o <<U8(payload_length)>> \o payload
    IN  [cmd |-> "FRMW", frame_length |-> U8(frame_length),
         frame |-> [k \in 1 .. frame_length |-> Reversed[plain[k]]],
         len |-> frame_length + 2]

(***************************************************************************)
(* src/lprf.c: channel configuration.  Frequencies are carried in MHz: the *)
(* driver holds them in Hz in a uint32_t, and every frequency it handles   *)
(* is a whole number of MHz below 2^32 Hz.                                 *)
(***************************************************************************)
EIO == 5

MHZ == 1000000

\* src/lprf.c calc_vco_tune
calc_vco_tune(channel_number) ==
    CASE channel_number = 11 -> 237
      [] channel_number = 12 -> 235
      [] channel_number = 13 -> 234
      [] channel_number = 14 -> 232
      [] channel_number = 15 -> 231
      [] channel_number = 16 -> 223
      [] channel_number = 17 -> 222
      [] channel_number = 18 -> 220
      [] channel_number = 19 -> 213
      [] channel_number = 20 -> 212
      [] channel_number = 21 -> 210
      [] channel_number = 22 -> 209
      [] channel_number = 23 -> 207
      [] channel_number = 24 -> 206
      [] channel_number = 25 -> 206
      [] channel_number = 26 -> 204
      [] OTHER -> 0

\* faulty variant: the channel number is not taken relative to channel 11
calculate_rf_center_freq_from_zero(channel_number) ==
    IF channel_number >= 11 /\ channel_number <= 26
    THEN 2405 + 5 * channel_number
    ELSE 0

\* src/lprf.c calculate_rf_center_freq, in MHz
calculate_rf_center_freq(channel_number) ==
    IF channel_number >= 11 /\ channel_number <= 26
    THEN 2405 + 5 * (channel_number - 11)
    ELSE 0

\* (f_MHz * 1000000) / 3 in Hz
ThirdHz(f_MHz) == (f_MHz \div 3) * MHZ + ((f_MHz % 3) * MHZ) \div 3

\* x * 228 / 3479 by exact arithmetic
Scale228(x) == (x \div 3479) * 228 + ((x % 3479) * 228) \div 3479

\* the product a * b as it would be without a limit of width, in two limbs
\* of 16 bits: hi * 65536 + lo.  It fits a uint32_t when hi < 65536.
Wide(a, b) ==
    LET low == (a % 65536) * b
    IN  [hi |-> (a \div 65536) * b + low \div 65536, lo |-> low % 65536]

\* the 32 bits kept of a value
U32(w) == [hi |-> w.hi % 65536, lo |-> w.lo]

\* a uint32_t in two limbs divided by a divisor below 2^15
WideDiv(w, d) ==
    (w.hi \div d) * 65536 + ((w.hi % d) * 65536 + w.lo) \div d

\* faulty variant: a scale ten times as fine
FracProduct_ten_times(remainder) == Wide(remainder, 2280)

\* (f_lo % 16000000) * 228
FracProduct(remainder) == Wide(remainder, 228)

\* src/lprf.c lprf_calculate_pll_values: the values left in *int_val and
\* *frac_val (untouched on failure), the return value, and the values the
\* computation goes through
lprf_calculate_pll_values(rf_frequency, if_frequency, int_val, frac_val) ==
    LET frac_correction == 0 IN
    IF rf_frequency > 2000
    THEN LET f_lo == ThirdHz(rf_frequency - if_frequency) * 2 IN
         [ret |-> 0,
          int_val |-> f_lo \div (16 * MHZ),
          frac_val |-> WideDiv(U32(FracProduct(f_lo % (16 * MHZ))), 3479)
                           + frac_correction,
          steps |-> [rf_frequency |-> Wide(MHZ, rf_frequency),
                     difference |-> Wide(MHZ, rf_frequency - if_frequency),
                     f_lo |-> f_lo,
                     remainder |-> f_lo % (16 * MHZ),
                     product |-> FracProduct(f_lo % (16 * MHZ))]]
    ELSE [ret |-> 0 - EINVAL, int_val |-> int_val, frac_val |-> frac_val,
          steps |-> <<>>]

\* a call of lprf_write_subreg: the sub-register, which byte of the value
\* was taken (BIT24_H_BYTE, BIT24_M_BYTE, BIT24_L_BYTE or the value as it is)
\* and the value
SubregWrite(reg, byte, value) == [reg |-> reg, byte |-> byte, of |-> value]

\* the four writes of one PLL setting
ChanWrites(path, pll_int, pll_frac) ==
    <<SubregWrite("SR_" \o path \o "_CHAN_INT", "value", pll_int),
      SubregWrite("SR_" \o path \o "_CHAN_FRAC_H", "BIT24_H_BYTE", pll_frac),
      SubregWrite("SR_" \o path \o "_CHAN_FRAC_M", "BIT24_M_BYTE", pll_frac),
      SubregWrite("SR_" \o path \o "_CHAN_FRAC_L", "BIT24_L_BYTE", pll_frac)>>

\* RETURN_ON_ERROR around a run of writes of which the one numbered fail_at
\* fails (0: none does): the writes that took effect and the value returned
ReturnOnError(writes, fail_at, ret) ==
    IF fail_at \in 1 .. Len(writes)
    THEN [ret |-> 0 - EIO, writes |-> SubSeq(writes, 1, fail_at - 1)]
    ELSE [ret |-> ret, writes |-> writes]

\* src/lprf.c lprf_set_ieee802154_channel: the value returned, the writes
\* that took effect, the local rf_freq (in MHz) and the two computations
\* of PLL values
lprf_set_ieee802154_channel(page, channel, fail_at) ==
    IF page # 0 THEN [ret |-> 0 - EINVAL, writes |-> <<>>, rf_freq |-> 0]
    ELSE
    LET rf_freq == calculate_rf_center_freq(channel)
        rx == lprf_calculate_pll_values(rf_freq, 1, 0, 0)
        tx == lprf_calculate_pll_values(rf_freq, 0, rx.int_val, rx.frac_val)
        vco_tune == calc_vco_tune(channel)
        done == ReturnOnError(
                    ChanWrites("RX", rx.int_val, rx.frac_val)
                        \o ChanWrites("TX", tx.int_val, tx.frac_val)
                        \o <<SubregWrite("SR_PLL_VCO_TUNE", "value",
                                          vco_tune)>>,
                    fail_at, tx.ret)
    IN  [ret |-> done.ret, writes |-> done.writes, rf_freq |-> rf_freq,
         rx |-> rx, tx |-> tx]

\* src/lprf.c lprf_tx_powers, values in 0.01 dBm
lprf_tx_powers ==
    <<0, 100, 200, 300, 400, 500, 600, 700, 800, 900,
      1000, 1100, 1200, 1300, 1400, 1500>>

\* faulty variant: the position in the table counted from one
lprf_set_tx_power_from_one(power, write_ok) ==
    LET tx_powers_size == Len(lprf_tx_powers)
        hits == {i \in 0 .. tx_powers_size - 1 : lprf_tx_powers[i + 1] = power}
    IN  IF hits = {} THEN [ret |-> 0 - EINVAL, writes |-> <<>>]
        ELSE LET i == CHOOSE h \in hits : \A g \in hits : h <= g IN
             ReturnOnError(<<SubregWrite("SR_TX_PWR_CTRL", "value", i + 1)>>,
                           IF write_ok THEN 0 ELSE 1, 0)

\* src/lprf.c lprf_set_tx_power: the first entry of the supported powers
\* equal to power decides, its index is written
lprf_set_tx_power(power, write_ok) ==
    LET tx_powers_size == Len(lprf_tx_powers)
        hits == {i \in 0 .. tx_powers_size - 1 : lprf_tx_powers[i + 1] = power}
    IN  IF hits = {} THEN [ret |-> 0 - EINVAL, writes |-> <<>>]
        ELSE LET i == CHOOSE h \in hits : \A g \in hits : h <= g IN
             ReturnOnError(<<SubregWrite("SR_TX_PWR_CTRL", "value", i)>>,
                           IF write_ok THEN 0 ELSE 1, 0)

(***************************************************************************)
(* Initial state: the driver after lprf_probe()                            *)
(***************************************************************************)
NoReport ==
    [op |-> "none", ctx |-> "none", rx_byte |-> 0, status |-> 0,
     acquired |-> FALSE, flag_in |-> FALSE, skb_in |-> NULL,
     written_in |-> FALSE, skb_test |-> NULL, released |-> "none",
     acts |-> <<>>]

NumAttempts == 2

Guards == {"is_active", "transition_in_progress"}

Attempts == 1 .. NumAttempts

MaxFail == 1

CoreInit ==
    /\ is_active = 0
    /\ transition_in_progress = 0
    /\ to_state = "none"
    /\ tx_complete = FALSE
    /\ tx_skb = NULL
    /\ free_skb = FALSE
    /\ rx_polling_active = 0
    /\ reset_counter = 0
    /\ sc_complete = "none"
    /\ spi_queue = <<>>
    /\ timer = "off"
    /\ poll_ret = [c \in Ctx |-> 0]
    /\ wr_log = <<>>
    /\ wr_done = 0
    /\ chain = <<>>
    /\ last = NoReport
    /\ iface = "initial"
    /\ tx_written = FALSE
    /\ fail_next = 0
    /\ arming = "none"
    /\ stepping = <<>>

\* no call of spi_async() fails, lprf_start_polling_timer() is one step
DrvInit ==
    CoreInit /\ fail_left = 0 /\ split_arm = FALSE /\ early_left = 0

GuardLabInit ==
    /\ g_ctr = [g \in Guards |-> 0]
    /\ g_pc = [g \in Guards |-> [a \in Attempts |-> "start"]]
    /\ g_ret = [g \in Guards |-> [a \in Attempts |-> 0]]

\* no function of the data path has been applied
NoCodec == [op |-> "none", arg |-> <<>>, res |-> <<>>]

CodecIdle == codec = NoCodec

Init == DrvInit /\ GuardLabInit /\ CodecIdle

(***************************************************************************)
(* Actions: one per entry point, timer callback and completion callback    *)
(***************************************************************************)
Step(op, ctx, W, pr) ==
    /\ Commit(W)
    /\ last' = Report(op, ctx, W)
    /\ poll_ret' = pr
    /\ UNCHANGED <<guard_vars, codec>>

\* a context enters lprf_phy_status_async on the state W1
Enter(op, ctx, W1) ==
    LET W == PhyStatusAsyncEnter(W1) IN
    Step(op, ctx, W, [poll_ret EXCEPT ![ctx] = W.is_active])

\* a submission: its report tells what the slot held
Submit(op, ctx, W, pr) ==
    /\ Commit(W)
    /\ last' = SubmitReport(op, ctx, World, W)
    /\ poll_ret' = pr
    /\ UNCHANGED <<guard_vars, codec>>

SubmitEnter(op, ctx, W1) ==
    LET W == PhyStatusAsyncEnter(W1) IN
    Submit(op, ctx, W, [poll_ret EXCEPT ![ctx] = W.is_active])

\* src/lprf.c lprf_start_ieee802154
StartIeee802154 ==
    /\ poll_ret["net"] = 0
    /\ iface # "started"
    /\ Enter("lprf_start_ieee802154", "net",
             [World EXCEPT !.rx_polling_active = 1, !.iface = "started"])

\* src/lprf.c lprf_stop_ieee802154: hrtimer_cancel() waits for a running
\* timer callback
StopIeee802154 ==
    /\ poll_ret["net"] = 0
    /\ poll_ret["timer"] = 0
    /\ iface = "started"
    /\ Step("lprf_stop_ieee802154", "net",
            lprf_stop_polling([World EXCEPT !.iface = "stopped"]), poll_ret)

\* src/lprf.c lprf_xmit_ieee802154_async
XmitIeee802154 ==
    /\ poll_ret["net"] = 0
    /\ iface = "started"
    /\ IF tx_skb # NULL
       THEN Submit("lprf_xmit_ieee802154_async", "net",
                   [World EXCEPT !.acts = <<"EBUSY">>], poll_ret)
       ELSE SubmitEnter("lprf_xmit_ieee802154_async", "net",
                        [World EXCEPT !.tx_skb = "net",
                                      !.tx_written = FALSE,
                                      !.acts = <<"accepted">>])

\* src/lprf.c lprf_write_char_device: with a frame pending the writer sleeps
\* until the slot is free or a signal interrupts the wait; then it stores
\* its frame
WriteCharDevice(interrupted) ==
    /\ poll_ret["chr"] = 0
    /\ tx_skb = NULL \/ interrupted
    /\ SubmitEnter("lprf_write_char_device", "chr",
                   [World EXCEPT !.tx_skb = "chr", !.free_skb = TRUE,
                                 !.tx_written = FALSE,
                                 !.acts = <<"accepted">>])

\* src/lprf.c lprf_start_poll: the armed timer expires
StartPoll ==
    /\ timer # "off"
    /\ poll_ret["timer"] = 0
    /\ Enter("lprf_start_poll", "timer", [World EXCEPT !.timer = "off"])

\* src/lprf.c lprf_phy_status_async after its atomic_inc_return, in any
\* context that entered it
PhyStatusAsync(ctx) ==
    /\ poll_ret[ctx] # 0
    /\ Step("lprf_phy_status_async", ctx,
            PhyStatusAsyncRest(World, poll_ret[ctx]),
            [poll_ret EXCEPT ![ctx] = 0])

\* the SPI core runs the callback of the oldest message in flight, once the
\* callback before it has returned
SpiCompletes(msg) ==
    /\ poll_ret["spi"] = 0
    /\ arming = "none"
    /\ spi_queue # <<>>
    /\ Head(spi_queue) = msg

Completed == [World EXCEPT !.spi_queue = Tail(@)]

CompletedWrite == [Completed EXCEPT !.wr_done = @ + 1]

\* src/lprf.c lprf_phy_status_complete
PhyStatusComplete(rx_byte) ==
    /\ SpiCompletes("phy")
    /\ LET W == lprf_phy_status_complete(Completed, rx_byte) IN
        /\ Commit(W)
        /\ last' = EvalReport(rx_byte, World, W)
        /\ UNCHANGED <<poll_ret, guard_vars, codec>>

\* src/lprf.c lprf_rx_resets as completion callback
RxResets ==
    /\ SpiCompletes("sc")
    /\ sc_complete = "lprf_rx_resets"
    /\ Step("lprf_rx_resets", "spi",
            lprf_rx_resets(CompletedWrite), poll_ret)

\* src/lprf.c lprf_rx_change_complete
RxChangeComplete ==
    /\ SpiCompletes("sc")
    /\ sc_complete = "lprf_rx_change_complete"
    /\ Step("lprf_rx_change_complete", "spi",
            lprf_rx_change_complete(CompletedWrite), poll_ret)

\* src/lprf.c __lprf_frame_write_complete
FrameWriteComplete ==
    /\ SpiCompletes("sc")
    /\ sc_complete = "__lprf_frame_write_complete"
    /\ Step("__lprf_frame_write_complete", "spi",
            lprf_frame_write_complete(CompletedWrite), poll_ret)

\* src/lprf.c lprf_tx_change_complete
TxChangeComplete ==
    /\ SpiCompletes("sc")
    /\ sc_complete = "lprf_tx_change_complete"
    /\ Step("lprf_tx_change_complete", "spi",
            lprf_tx_change_complete(CompletedWrite), poll_ret)

\* src/lprf.c __lprf_read_frame_complete
ReadFrameComplete(outcome) ==
    /\ SpiCompletes("sc")
    /\ sc_complete = "__lprf_read_frame_complete"
    /\ Enter("__lprf_read_frame_complete", "spi",
             lprf_read_frame_complete(CompletedWrite, outcome))

\* src/lprf.c lprf_receive_ieee802154_data: what becomes of the data read
RxOutcomes ==
    {"frame_delivered", "sfd_not_found", "length_too_large", "alloc_failure"}

\* src/lprf.c lprf_async_error_recover
AsyncErrorRecover ==
    /\ SpiCompletes("sc")
    /\ sc_complete = "lprf_async_error_recover"
    /\ Step("lprf_async_error_recover", "spi",
            lprf_async_error_recover(CompletedWrite), poll_ret)

\* src/lprf.c lprf_async_error_recover_callback
AsyncErrorRecoverCallback ==
    /\ SpiCompletes("sc")
    /\ sc_complete = "lprf_async_error_recover_callback"
    /\ Enter("lprf_async_error_recover_callback", "spi",
             [CompletedWrite EXCEPT !.rx_polling_active = 1])

\* the hrtimer_start of a lprf_start_polling_timer() that has read the flag
HrtimerStart ==
    /\ arming # "none"
    /\ Step("hrtimer_start", "spi", hrtimer_start(World, arming), poll_ret)

\* the SPI core turns faulty: the next spi_async() returns an error
SpiBreaks ==
    /\ fail_left > 0
    /\ fail_next = 0
    /\ fail_left' = fail_left - 1
    /\ fail_next' = 1
    /\ UNCHANGED <<is_active, transition_in_progress, to_state, tx_complete,
                   tx_skb, free_skb, rx_polling_active, reset_counter,
                   sc_complete, spi_queue, timer, poll_ret, wr_log, wr_done,
                   chain, last, iface, tx_written, split_arm, arming,
                   early_left, stepping, guard_vars, codec>>

(***************************************************************************)
(* Guard acquisition in isolation: on each of the two guards, Attempts     *)
(* callers run "if (atomic_inc_return(&guard) != 1) { atomic_dec(&guard);  *)
(* return busy; }" concurrently, one atomic operation per step, and the    *)
(* winner keeps the guard.                                                 *)
(***************************************************************************)
GuardStep(g, a, pc, ctr, ret) ==
    /\ g_pc' = [g_pc EXCEPT ![g][a] = pc]
    /\ g_ctr' = [g_ctr EXCEPT ![g] = ctr]
    /\ g_ret' = [g_ret EXCEPT ![g][a] = ret]
    /\ UNCHANGED <<drv_vars, codec>>

\* atomic_inc_return(&guard)
GuardInc(g, a) ==
    /\ g_pc[g][a] = "start"
    /\ GuardStep(g, a, "test", atomic_inc_return(g_ctr[g]),
                 atomic_inc_return(g_ctr[g]))

\* the test of the value returned
GuardTest(g, a) ==
    /\ g_pc[g][a] = "test"
    /\ GuardStep(g, a, IF GuardAcquired(g_ret[g][a]) THEN "won" ELSE "dec",
                 g_ctr[g], g_ret[g][a])

\* atomic_dec(&guard) of a caller that lost, which then returns busy
GuardDec(g, a) ==
    /\ g_pc[g][a] = "dec"
    /\ GuardStep(g, a, "busy", atomic_dec(g_ctr[g]), g_ret[g][a])

GuardNext ==
    \/ \E g \in Guards, a \in Attempts : GuardInc(g, a)
    \/ \E g \in Guards, a \in Attempts : GuardTest(g, a)
    \/ \E g \in Guards, a \in Attempts : GuardDec(g, a)

GuardSpec == Init /\ [][GuardNext]_vars

\* the steps of the driver with the chip answering a status read with a
\* byte of the set S
NextOn(S) ==
    \/ StartIeee802154
    \/ StopIeee802154
    \/ XmitIeee802154
    \/ \E interrupted \in BOOLEAN : WriteCharDevice(interrupted)
    \/ StartPoll
    \/ \E ctx \in Ctx : PhyStatusAsync(ctx)
    \/ \E rx_byte \in S : PhyStatusComplete(rx_byte)
    \/ RxResets
    \/ RxChangeComplete
    \/ FrameWriteComplete
    \/ TxChangeComplete
    \/ \E outcome \in RxOutcomes : ReadFrameComplete(outcome)

Next == NextOn(ChipStatus)

\* all contexts interleaved
Spec == Init /\ [][Next]_vars

\* the schedules in which a context that entered lprf_phy_status_async
\* leaves it before anything else runs, with every status byte
SeqNext ==
    \/ (\A c \in Ctx : poll_ret[c] = 0) /\ NextOn(StatusBytes)
    \/ (\E c \in Ctx : poll_ret[c] # 0) /\ \E ctx \in Ctx : PhyStatusAsync(ctx)

SeqSpec == Init /\ [][SeqNext]_vars

\* the driver with calls of spi_async() that fail
FailInit ==
    /\ CoreInit /\ fail_left = MaxFail /\ split_arm = FALSE
    /\ early_left = 0
    /\ GuardLabInit /\ CodecIdle

FailNext ==
    \/ NextOn(ChipStatus)
    \/ SpiBreaks
    \/ AsyncErrorRecover
    \/ AsyncErrorRecoverCallback

FailSpec == FailInit /\ [][FailNext]_vars

MaxBurst == 3

\* the SPI core turns faulty for a while: the next n calls of spi_async()
\* return an error, among them those of the failure handler itself
SpiStaysBroken ==
    /\ fail_left > 0
    /\ fail_next = 0
    /\ \E n \in 1 .. fail_left :
          /\ fail_next' = n
          /\ fail_left' = 0
    /\ UNCHANGED <<is_active, transition_in_progress, to_state, tx_complete,
                   tx_skb, free_skb, rx_polling_active, reset_counter,
                   sc_complete, spi_queue, timer, poll_ret, wr_log, wr_done,
                   chain, last, iface, tx_written, split_arm, arming,
                   early_left, stepping, guard_vars, codec>>

\* the driver with one run of consecutive calls of spi_async() that fail
BurstInit ==
    /\ CoreInit /\ fail_left = MaxBurst /\ split_arm = FALSE
    /\ early_left = 0
    /\ GuardLabInit /\ CodecIdle

BurstNext ==
    \/ NextOn(ChipStatus)
    \/ SpiStaysBroken
    \/ AsyncErrorRecover
    \/ AsyncErrorRecoverCallback

BurstSpec == BurstInit /\ [][BurstNext]_vars

\* an invocation of lprf_rx_resets() that has dispatched its write comes to
\* its update of reset_counter
ResetCounterUpdate ==
    /\ stepping # <<>>
    /\ Step("reset_counter_update", "spi",
            reset_counter_update([World EXCEPT !.stepping = Tail(@)],
                                 Head(stepping)),
            poll_ret)

\* the driver with lprf_rx_resets() in two steps: the dispatch of the write,
\* then the update of reset_counter
EarlyInit ==
    /\ CoreInit /\ fail_left = 0 /\ split_arm = FALSE
    /\ early_left = MaxEarly
    /\ GuardLabInit /\ CodecIdle

EarlyNext ==
    \/ NextOn(ChipStatus)
    \/ ResetCounterUpdate

EarlySpec == EarlyInit /\ [][EarlyNext]_vars

\* the driver with lprf_start_polling_timer() in two steps
StopInit ==
    /\ CoreInit /\ fail_left = 0 /\ split_arm = TRUE
    /\ early_left = 0
    /\ GuardLabInit /\ CodecIdle

StopNext ==
    \/ NextOn(ChipStatus)
    \/ HrtimerStart

StopSpec == StopInit /\ [][StopNext]_vars

(***************************************************************************)
(* The data path in isolation: each function is applied once to an input   *)
(* drawn from the sets below                                               *)
(***************************************************************************)
\* the two preambles of the comment of find_SFD_and_shift_data: 0101...
\* and 1010...
Preambles == {85, 170}

\* payload bytes: all bits clear, all set, alternating, the delimiter
\* itself, and two bytes without symmetry
PayloadBytes == {0, 255, 85, 229, 19, 200}

MaxPayload == 2

Payloads == UNION {[1 .. n -> PayloadBytes] : n \in 1 .. MaxPayload}

Repeat(byte, n) == [k \in 1 .. n |-> byte]

\* a stream of bytes that arrives k bits late: fill comes first, the last
\* byte is completed with zeros
Late(stream, k, fill) ==
    IF k = 0 THEN stream
    ELSE [i \in 1 .. Len(stream) + 1 |->
            U8(BitOr(ShiftL(IF i = 1 THEN fill ELSE stream[i - 1], 8 - k),
                     ShiftR(IF i > Len(stream) THEN 0 ELSE stream[i], k)))]

\* the byte the chip has to put on the bus for preprocess_received_data to
\* give corrected
RawOf(corrected) ==
    [k \in 1 .. Len(corrected) |-> Reversed[BitNot8(corrected[k])]]

\* the byte behind the received data in rx_buf: the transfer is always
\* MAX_SPI_BUFFER_SIZE bytes long and this one is not preprocessed
BehindData == {0, 255}

\* buffers for find_SFD_and_shift_data: every pair of bytes at the place of
\* the delimiter, and streams [preamble][0xE5][payload] with 3 or 4 bytes
\* of preamble that arrive 0, 1 or 2 bits late, and buffers too short
SfdInputs ==
    {[kind |-> "pair", payload |-> <<a, b>>, preamble |-> 3, late |-> 0,
      data |-> <<85, 85, 85, a, b, 17, 34, 153>>, data_length |-> 7] :
        a \in Bytes, b \in Bytes}
    \cup
    {[kind |-> "stream", payload |-> payload, preamble |-> n, late |-> k,
      data |-> Late(Repeat(p, n) \o <<SFD>> \o payload, k, fill)
               \o <<behind>>,
      data_length |-> Len(Late(Repeat(p, n) \o <<SFD>> \o payload, k,
                               fill))] :
        payload \in Payloads, n \in {3, 4}, k \in 0 .. 2, p \in Preambles,
        fill \in {0, 3}, behind \in BehindData}
    \cup
    {[kind |-> "short", payload |-> <<>>, preamble |-> 3, late |-> 0,
      data |-> Repeat(SFD, n + 1), data_length |-> n] : n \in 0 .. 4}

\* how many bytes follow the length byte in the buffers of the length
\* rule: none, around the two smallest valid lengths, around the largest
BodyLengths == {0, 4, 5, 9, 126, 127}

\* bytes that differ from their neighbours
Body(n) == [k \in 1 .. n |-> (k * 7 + 3) % 256]

\* corrected buffers for __lprf_read_frame_complete: every declared length
\* before bodies of several lengths, every byte at the place of the
\* delimiter, and buffers shorter than preamble and delimiter
RxInputs ==
    {[kind |-> "length", behind |-> 0,
      corrected |-> Repeat(85, 3) \o <<SFD, declared>> \o Body(n)] :
        declared \in Bytes, n \in BodyLengths}
    \cup
    {[kind |-> "delimiter", behind |-> behind,
      corrected |-> Repeat(p, 3) \o <<a, 5>> \o Body(5)] :
        a \in Bytes, p \in Preambles, behind \in BehindData}
    \cup
    {[kind |-> "short", behind |-> behind,
      corrected |-> SubSeq(<<declared, 229, 5, 1>>, 1, n)] :
        declared \in Bytes, n \in 0 .. 4, behind \in BehindData}

CodecApply(op, arg, res) ==
    /\ codec' = [op |-> op, arg |-> arg, res |-> res]
    /\ UNCHANGED <<drv_vars, guard_vars>>

\* src/lprf.c reverse_bit_order
ReverseBitOrder ==
    /\ codec.op = "none"
    /\ \E byte \in Bytes :
          CodecApply("reverse_bit_order", byte, reverse_bit_order(byte))

\* src/lprf.c find_SFD_and_shift_data
FindSfdAndShiftData ==
    /\ codec.op = "none"
    /\ \E in \in SfdInputs :
          CodecApply("find_SFD_and_shift_data", in,
                     find_SFD_and_shift_data(in.data, in.data_length, SFD,
                                             PREAMBLE_LENGTH))

\* src/lprf.c __lprf_read_frame_complete, the data: the debug interface
\* is open or not, dev_alloc_skb succeeds or not
ReadFrameCompleteData ==
    /\ codec.op = "none"
    /\ \E in \in RxInputs, is_ready \in BOOLEAN, alloc_ok \in BOOLEAN :
          LET rx_data == RawOf(in.corrected) \o <<in.behind>> IN
          CodecApply("__lprf_read_frame_complete",
                     [kind |-> in.kind, rx_data |-> rx_data,
                      corrected |-> in.corrected,
                      length |-> Len(in.corrected),
                      is_ready |-> is_ready, alloc_ok |-> alloc_ok],
                     ReadFrameData(rx_data, Len(in.corrected), is_ready,
                                   alloc_ok))

\* payloads to send: every payload of 5 bytes over three values, one of 9
\* and one of 127 bytes, and the short ones
TxPayloads ==
    [1 .. 5 -> {0, 229, 19}] \cup {Body(9), Body(127)} \cup Payloads

\* what __lprf_read_frame_complete finds in rx_buf + 2 when the frame
\* written by lprf_start_frame_write comes back: "wire" is the frame as it
\* was written; "chip" is the frame as the chip hands a received frame
\* over, the first byte of the preamble consumed by its preamble
\* detection and the polarity of every bit inverted
ComesBack(frame, via) ==
    IF via = "wire" THEN frame
    ELSE [k \in 1 .. Len(frame) - 1 |-> BitNot8(frame[k + 1])]

\* src/lprf.c lprf_start_frame_write, then __lprf_read_frame_complete on
\* what comes back
Loopback ==
    /\ codec.op = "none"
    /\ \E payload \in TxPayloads, preamble \in Preambles,
          via \in {"wire", "chip"}, is_ready \in BOOLEAN :
          LET tx == FrameWriteTxBuf(payload, preamble)
              rx_data == ComesBack(tx.frame, via) \o <<0>>
          IN  CodecApply("loopback",
                         [payload |-> payload, via |-> via, tx |-> tx,
                          rx_data |-> rx_data, length |-> Len(rx_data) - 1,
                          is_ready |-> is_ready],
                         ReadFrameData(rx_data, Len(rx_data) - 1, is_ready,
                                       TRUE))

\* the channel pages and channels (u8) the network stack is let to ask for:
\* the sixteen channels of the 2.4 GHz band, their neighbours and the ends
Pages == {0, 1}

Channels == {0, 255} \cup (9 .. 28)

\* the write that fails, if any, of the nine of a channel setting
FailingWrites == 0 .. 9

\* src/lprf.c lprf_set_ieee802154_channel
SetChannel ==
    /\ codec.op = "none"
    /\ \E page \in Pages, channel \in Channels, fail_at \in FailingWrites :
          CodecApply("lprf_set_ieee802154_channel",
                     [page |-> page, channel |-> channel,
                      fail_at |-> fail_at],
                     lprf_set_ieee802154_channel(page, channel, fail_at))

\* powers (s32) asked for: the sixteen supported ones, values between and
\* beside them, an index taken for a power, and the ends of the type
Powers ==
    {lprf_tx_powers[k] : k \in 1 .. Len(lprf_tx_powers)}
        \cup {-2147483647, -100, -1, 1, 15, 50, 150, 1499, 1501, 1600,
              2147483647}

\* src/lprf.c lprf_set_tx_power
SetTxPower ==
    /\ codec.op = "none"
    /\ \E power \in Powers, write_ok \in BOOLEAN :
          CodecApply("lprf_set_tx_power",
                     [power |-> power, write_ok |-> write_ok],
                     lprf_set_tx_power(power, write_ok))

CodecNext ==
    \/ ReverseBitOrder
    \/ FindSfdAndShiftData
    \/ ReadFrameCompleteData
    \/ Loopback
    \/ SetChannel
    \/ SetTxPower

CodecSpec == Init /\ [][CodecNext]_vars

(***************************************************************************)
(* Properties                                                              *)
(***************************************************************************)
IsEvaluate == last.op = "lprf_phy_status_complete"

InFlight(msg) == Count(spi_queue, msg)

\* C1: the transition guard admits one holder.  At most one transition
\* (FIFO read, RX sequence, TX sequence) is in flight and it holds the
\* guard; an evaluation that finds the guard held gives back its own
\* increment and starts no SPI operation, arms no timer and touches no
\* transition state.
C1_TransitionExclusion ==
    /\ [](/\ Len(chain) <= 1
          /\ InFlight("sc") <= 1
          /\ InFlight("sc") = 1 => chain # <<>>
          /\ chain # <<>> => transition_in_progress >= 1
          /\ (IsEvaluate /\ last.acquired) => last.acts # <<>>
          /\ (IsEvaluate /\ ~last.acquired) => last.acts = <<>>)
    /\ [][(last'.op = "lprf_phy_status_complete" /\ ~last'.acquired) =>
            /\ transition_in_progress >= 1
            /\ transition_in_progress' = transition_in_progress
            /\ spi_queue' = Tail(spi_queue)
            /\ UNCHANGED <<chain, to_state, reset_counter, sc_complete,
                           timer, tx_skb, tx_complete, wr_log>>]_vars

\* an evaluation has found the guard held by an RX or TX sequence whose
\* next message is in flight
C1_Witness ==
    /\ IsEvaluate /\ ~last.acquired
    /\ chain \in {<<"RX">>, <<"TX">>}
    /\ InFlight("sc") = 1

\* C2: the poll guard admits one status read.  At most one status read is
\* in flight; a poll that finds the guard held restores the counter and
\* queues nothing; a poll that wins queues exactly one read; the completion
\* of the read releases the guard and evaluates the byte that was read.
C2_SingleStatusRead ==
    /\ [](/\ InFlight("phy") <= 1
          /\ InFlight("phy") = 1 => is_active >= 1)
    /\ [][last'.op = "lprf_phy_status_async" =>
            IF poll_ret[last'.ctx] # 1
            THEN /\ last'.acts = <<"EBUSY">>
                 /\ is_active' = is_active - 1
                 /\ spi_queue' = spi_queue
            ELSE /\ last'.acts = <<"status_read">>
                 /\ is_active' = is_active
                 /\ spi_queue' = Append(spi_queue, "phy")
                 /\ InFlight("phy") = 0]_vars
    /\ [][last'.op = "lprf_phy_status_complete" =>
            /\ Head(spi_queue) = "phy"
            /\ is_active' = is_active - 1
            /\ last'.status = last'.rx_byte]_vars

\* a poll has found the guard held while the read of another is in flight
C2_Witness ==
    /\ last.op = "lprf_phy_status_async"
    /\ last.acts = <<"EBUSY">>
    /\ InFlight("phy") = 1

GuardDone(g) == \A a \in Attempts : g_pc[g][a] \in {"won", "busy"}

GuardWinners(g) == {a \in Attempts : g_pc[g][a] = "won"}

\* C3: of the concurrent attempts on a guard, interleaved in any way, no
\* two win at any time, and once all have finished exactly one has won, the
\* others have returned busy and the counter is 1.
C3_GuardLinearizable ==
    \A g \in Guards :
        /\ Cardinality(GuardWinners(g)) <= 1
        /\ GuardDone(g) => /\ Cardinality(GuardWinners(g)) = 1
                           /\ g_ctr[g] = 1

\* both guards: every attempt has finished and the attempt that
\* incremented second has lost
C3_Witness ==
    \A g \in Guards :
        /\ GuardDone(g)
        /\ \E a \in Attempts : g_pc[g][a] = "busy" /\ g_ret[g][a] = 2

AttemptInProgress == \E c \in Ctx : poll_ret[c] # 0

\* C4: while polling is enabled the loop is alive: a timer is armed, or a
\* status read or a transition is in flight, or some context is inside
\* lprf_phy_status_async.
C4_PollingAlive ==
    rx_polling_active # 0 =>
        \/ timer # "off"
        \/ InFlight("phy") >= 1
        \/ InFlight("sc") >= 1
        \/ AttemptInProgress

\* the evaluation that ran last had acquired the transition guard
Evaluated == IsEvaluate /\ last.acquired

\* the fields of a status byte, by arithmetic
StateField(s) == (s \div 32) % 8

FifoEmptyBit(s) == (s \div 8) % 2

\* the evaluation that ran last finalized a transmission
Finalizes == last.flag_in /\ StateField(last.status) # 5

Terminal == {"read_lprf_fifo", "state_change_TX", "state_change_RX",
             "reschedule"}

\* C5 as stated: an evaluation that acquired the guard performs exactly
\* one of finalize transmission, FIFO read, TX transition, RX transition,
\* release and reschedule.
C5_ExactlyOneBranch ==
    Evaluated =>
        /\ Len(last.acts) = 1
        /\ last.acts[1] \in Terminal \cup {"lprf_tx_complete"}

\* C5: an evaluation that acquired the guard performs exactly one of FIFO
\* read, TX transition, RX transition, release and reschedule; it finalizes
\* the transmission before that one, and only then, when the
\* transmission-complete flag is set and the state is not SENDING.
C5_OneBranchAfterFinalize ==
    Evaluated =>
        \E b \in Terminal :
            last.acts = (IF Finalizes THEN <<"lprf_tx_complete">> ELSE <<>>)
                        \o <<b>>

\* a transmission was finalized and an RX transition started in the same
\* evaluation
C5_Witness ==
    /\ Evaluated
    /\ last.acts = <<"lprf_tx_complete", "state_change_RX">>

\* the first match of the ordered list of C6
FirstMatch(s, pending) ==
    IF StateField(s) = 2 /\ FifoEmptyBit(s) = 0 THEN "read_lprf_fifo"
    ELSE IF pending /\ FifoEmptyBit(s) = 1 THEN "state_change_TX"
    ELSE IF StateField(s) = 2 /\ FifoEmptyBit(s) = 1 THEN "state_change_RX"
    ELSE "reschedule"

\* C6: for every status byte, with and without a pending frame when the
\* list is consulted, the one action started is the first match of: SLEEP
\* and FIFO not empty -> FIFO read; pending frame and FIFO empty -> TX
\* transition; SLEEP and FIFO empty -> RX transition; otherwise release and
\* reschedule.  0x40 with no pending frame starts the FIFO read only.
C6_DecisionTable ==
    Evaluated =>
        /\ last.acts[Len(last.acts)] =
               FirstMatch(last.status, last.skb_test # NULL)
        /\ \A i \in 1 .. Len(last.acts) - 1 : last.acts[i] \notin Terminal
        /\ (last.status = 64 /\ last.skb_in = NULL) =>
               /\ last.acts = <<"read_lprf_fifo">>
               /\ chain = <<"read">>
               /\ spi_queue = <<"sc">>

\* status 0x40 was evaluated with no pending frame
C6_Witness ==
    /\ Evaluated
    /\ last.status = 64
    /\ last.skb_in = NULL
    /\ last.acts = <<"read_lprf_fifo">>

SmCommand(cmd) ==
    <<"SR_SM_COMMAND", [cached |-> "sm_main_value", data |-> cmd]>>

DemResetb(bit) ==
    <<"SR_DEM_RESETB", [cached |-> "dem_main_value", data |-> bit]>>

SmMain(value) == <<"RG_SM_MAIN", RegValue(value)>>

\* the four writes of reset steps 0..3
ResetWrites ==
    <<SmMain("0x05"), SmMain("0x0F"), DemResetb("0"), DemResetb("1")>>

RxWrites ==
    ResetWrites \o <<SmCommand("STATE_CMD_RX"), SmCommand("STATE_CMD_NONE")>>

IsPrefix(s, u) == Len(s) <= Len(u) /\ s = SubSeq(u, 1, Len(s))

\* C7: status 0x48 with no pending frame starts the RX sequence; the
\* sequence issues the six writes SM_MAIN<-0x05, SM_MAIN<-0x0F,
\* DEM_RESETB<-0, DEM_RESETB<-1, SM_COMMAND<-RX, SM_COMMAND<-NONE in that
\* order, each after the completion of the one before, holding the guard;
\* the completion of the sixth, and nothing else, releases the guard and
\* arms the timer at the RX settle interval (while polling is enabled).
C7_RxOrdering ==
    /\ [](/\ (Evaluated /\ last.status = 72 /\ last.skb_in = NULL) =>
                /\ last.acts = <<"state_change_RX">>
                /\ chain = <<"RX">>
                /\ wr_log = <<RxWrites[1]>>
          /\ chain = <<"RX">> =>
                /\ transition_in_progress = 1
                /\ wr_log # <<>>
                /\ IsPrefix(wr_log, RxWrites)
                /\ wr_done = Len(wr_log) - 1
                /\ InFlight("sc") = 1
          /\ last.op = "lprf_rx_change_complete" =>
                /\ wr_log = RxWrites
                /\ wr_done = 6
                /\ chain = <<>>
                /\ transition_in_progress = 0
                /\ InFlight("sc") = 0
                /\ rx_polling_active # 0 => timer = "RX_RX_INTERVAL")
    /\ [][(chain = <<"RX">> /\ chain' # chain) =>
             /\ last'.op = "lprf_rx_change_complete"
             /\ transition_in_progress' = transition_in_progress - 1]_vars
    /\ [][(timer' = "RX_RX_INTERVAL" /\ timer' # timer) =>
             last'.op = "lprf_rx_change_complete"]_vars

\* the sixth write of an RX sequence has completed with polling enabled
C7_Witness ==
    /\ last.op = "lprf_rx_change_complete"
    /\ wr_log = RxWrites
    /\ timer = "RX_RX_INTERVAL"

\* the writes of a TX sequence ahead of the frame write
TxWrites == <<SmCommand("STATE_CMD_SLEEP")>> \o ResetWrites

\* the log of a TX sequence: the command that leaves the current mode, reset
\* steps 0..3, the frame write, the TX command
IsTxLog(log) ==
    /\ log # <<>>
    /\ IsPrefix(SubSeq(log, 1, IF Len(log) < 5 THEN Len(log) ELSE 5),
                TxWrites)
    /\ Len(log) >= 6 => log[6][1] = "FRMW"
    /\ Len(log) >= 7 => log[7] = SmCommand("STATE_CMD_TX")
    /\ Len(log) <= 7

\* C8: the step counter stays within 0..5; a step adds one to it or sets
\* it to 0; it is set to 0 by step 5 of an RX sequence and by step 4 of a
\* TX sequence, so that each new sequence starts at step 0.
C8_StepCounter ==
    /\ [](/\ reset_counter \in 0 .. 5
          /\ chain = <<"RX">> => reset_counter = Len(wr_log) % 6
          /\ chain = <<"TX">> =>
                reset_counter = (IF Len(wr_log) <= 5 THEN Len(wr_log) - 1
                                 ELSE 0)
          /\ chain \in {<<>>, <<"read">>} => reset_counter = 0
          /\ "internal_error" \notin {last.acts[i] : i \in 1 .. Len(last.acts)})
    /\ [][reset_counter' # reset_counter =>
            /\ last'.op \in {"lprf_rx_resets", "lprf_phy_status_complete"}
            /\ \/ reset_counter' = reset_counter + 1
               \/ /\ reset_counter' = 0
                  /\ \/ reset_counter = 5 /\ to_state = "STATE_CMD_RX"
                     \/ reset_counter = 4 /\ to_state = "STATE_CMD_TX"]_vars
    /\ [][(chain = <<>> /\ chain' \in {<<"RX">>, <<"TX">>}) =>
            /\ reset_counter = 0
            /\ chain' = <<"RX">> => wr_log' = <<SmMain("0x05")>>
            /\ chain' = <<"TX">> => /\ wr_log' = <<TxWrites[1]>>
                                    /\ reset_counter' = 0]_vars

\* a TX sequence has diverted at step 4 into the frame write
C8_Witness ==
    /\ chain = <<"TX">>
    /\ reset_counter = 0
    /\ Len(wr_log) = 6
    /\ wr_log[6][1] = "FRMW"
    /\ last.op = "lprf_rx_resets"

\* C9 as stated: an evaluation that acquired the guard with a pending
\* frame and fifo_empty set starts the TX transition, whatever the state
\* field and the transmission-complete flag.
C9_TxWhateverFlag ==
    (Evaluated /\ last.skb_in # NULL /\ FifoEmptyBit(last.status) = 1) =>
        "state_change_TX" \in {last.acts[i] : i \in 1 .. Len(last.acts)}

\* C9: an evaluation that acquired the guard with a pending frame and
\* fifo_empty set starts the TX transition, whatever the state field,
\* unless the transmission-complete flag is set and the state is not
\* SENDING (then it finalizes the frame and starts no TX transition); the TX
\* transition runs reset steps 0..3 and at step 4 writes the frame, not the
\* RX command.
C9_TxUnlessFinalized ==
    /\ (Evaluated /\ last.skb_in # NULL /\ FifoEmptyBit(last.status) = 1) =>
          IF Finalizes
          THEN /\ last.acts[1] = "lprf_tx_complete"
               /\ last.skb_test = NULL
               /\ chain # <<"TX">>
          ELSE /\ last.acts = <<"state_change_TX">>
               /\ chain = <<"TX">>
               /\ to_state = "STATE_CMD_TX"
               /\ wr_log = <<TxWrites[1]>>
    /\ chain = <<"TX">> =>
          /\ IsTxLog(wr_log)
          /\ wr_done = Len(wr_log) - 1
          /\ InFlight("sc") = 1
          /\ to_state = "STATE_CMD_TX"

\* an evaluation of a state other than SLEEP, with the
\* transmission-complete flag set, has started the TX transition
C9_Witness ==
    /\ Evaluated
    /\ last.skb_in # NULL
    /\ last.flag_in
    /\ StateField(last.status) # 2
    /\ last.acts = <<"state_change_TX">>
    /\ wr_log = <<SmCommand("STATE_CMD_SLEEP")>>

\* C10: the completion of the frame write dispatches the TX command; the
\* completion of that write, and nothing else, sets the
\* transmission-complete flag, releases the guard of the TX transition and
\* arms the timer at the TX-to-RX interval (while polling is enabled); the
\* guard is held for as long as the TX transition runs.
C10_TxHandOff ==
    /\ [](/\ chain = <<"TX">> => transition_in_progress = 1
          /\ last.op = "__lprf_frame_write_complete" =>
                /\ chain = <<"TX">>
                /\ Len(wr_log) = 7
                /\ wr_log[7] = SmCommand("STATE_CMD_TX")
                /\ wr_done = 6
                /\ sc_complete = "lprf_tx_change_complete"
                /\ spi_queue[Len(spi_queue)] = "sc"
          /\ last.op = "lprf_tx_change_complete" =>
                /\ tx_complete
                /\ wr_done = 7
                /\ chain = <<>>
                /\ transition_in_progress = 0
                /\ rx_polling_active # 0 => timer = "TX_RX_INTERVAL")
    /\ [][(tx_complete' /\ ~tx_complete) =>
            last'.op = "lprf_tx_change_complete"]_vars
    /\ [][(chain = <<"TX">> /\ chain' # chain) =>
            /\ last'.op = "lprf_tx_change_complete"
            /\ wr_log[Len(wr_log)] = SmCommand("STATE_CMD_TX")
            /\ transition_in_progress' = transition_in_progress - 1]_vars
    /\ [][(timer' = "TX_RX_INTERVAL" /\ timer' # timer) =>
            last'.op = "lprf_tx_change_complete"]_vars

\* the TX command has completed with polling enabled
C10_Witness ==
    /\ last.op = "lprf_tx_change_complete"
    /\ tx_complete
    /\ timer = "TX_RX_INTERVAL"
    /\ transition_in_progress = 0

Acts(r) == {r.acts[i] : i \in 1 .. Len(r.acts)}

Submissions == {"lprf_xmit_ieee802154_async", "lprf_write_char_device"}

\* C11: a frame is finalized only by an evaluation that holds the guard and
\* sees a state other than SENDING with the transmission-complete flag set,
\* and only a frame that is pending and has been written to the chip before
\* the TX command whose completion set the flag.
C11_FinalizedAfterTxCommand ==
    /\ last.released # "none" => Evaluated
    /\ (Evaluated /\ "lprf_tx_complete" \in Acts(last)) =>
          /\ last.flag_in
          /\ StateField(last.status) # 5
          /\ last.skb_in # NULL
          /\ last.written_in
          /\ tx_skb = NULL
          /\ ~tx_complete

\* C12: a submission is accepted only into an empty slot: while a frame is
\* pending no submitter stores another one over it.
C12_NoOverwrite ==
    (last.op \in Submissions /\ "accepted" \in Acts(last)) =>
        last.skb_in = NULL

\* C13: a frame of the network stack leaves the slot by one completion
\* notification and is never freed, a frame of the debug interface leaves
\* it by being freed once and is never reported; the tag is cleared at
\* finalization.
C13_ReleaseByOwner ==
    /\ (Evaluated /\ last.released # "none") =>
          /\ last.skb_in = "net" => last.released = "ieee802154_xmit_complete"
          /\ last.skb_in = "chr" => last.released = "kfree_skb"
          /\ last.skb_in # NULL
          /\ ~free_skb
    /\ (last.op \in Submissions /\ "accepted" \in Acts(last)) =>
          last.skb_in \notin {"net", "chr"}
    /\ tx_skb = "net" => ~free_skb
    /\ tx_skb = "chr" => free_skb

LastWrite == wr_log[Len(wr_log)]

GlobalResetb(value) == <<"RG_GLOBAL_RESETB", RegValue(value)>>

\* C14: every call of spi_async() that fails (status read, register write,
\* frame read, frame write) makes the driver stop the poller and write 0 to
\* the global reset register; the completion of that write writes 0xff, and
\* the completion of that one enables polling and polls the status.
C14_RecoveryOnAnyFailure ==
    /\ "spi_async_error" \in Acts(last) =>
          /\ "lprf_async_error" \in Acts(last)
          /\ rx_polling_active = 0
          /\ timer = "off"
          /\ InFlight("sc") >= 1
          /\ sc_complete = "lprf_async_error_recover"
          /\ LastWrite = GlobalResetb("0")
    /\ last.op = "lprf_async_error_recover" =>
          /\ sc_complete = "lprf_async_error_recover_callback"
          /\ LastWrite = GlobalResetb("0xff")
    /\ last.op = "lprf_async_error_recover_callback" =>
          /\ rx_polling_active = 1
          /\ poll_ret["spi"] # 0

\* the recovery has run to its end and no transition has written a
\* register since
Recovered ==
    sc_complete = "lprf_async_error_recover_callback" /\ InFlight("sc") = 0

\* C15: the status poll at the end of the recovery is answered with busy
\* only if a status read is in flight or another caller is inside
\* lprf_phy_status_async, also after a status read that failed to dispatch.
C15_PollGuardRecoverable ==
    (/\ Recovered
     /\ last.op = "lprf_phy_status_async"
     /\ last.ctx = "spi"
     /\ "EBUSY" \in Acts(last)) =>
        InFlight("phy") >= 1 \/ AttemptInProgress

\* C16: after a dispatch failure and the recovery writes, an evaluation
\* acquires the transition guard.
C16_ResumesAfterRecovery ==
    (Recovered /\ IsEvaluate) => last.acquired

\* C17: the recovery path submits the state-change message only when no
\* operation that uses it is in flight.
C17_RecoveryExclusive ==
    "lprf_async_error" \in Acts(last) => InFlight("sc") <= 1

\* C18: once lprf_stop_ieee802154 has returned, and until the interface is
\* started again, the polling timer is not armed.
C18_NoRearmAfterStop ==
    iface = "stopped" => timer = "off"

\* C19: once lprf_stop_ieee802154 has returned, and until the interface is
\* started again, the polling-active flag stays cleared.
C19_StopIsTerminal ==
    iface = "stopped" => rx_polling_active = 0

\* C20: whatever became of the data read, the completion of the frame read
\* releases the transition guard once, leaves the pending frame, the flag,
\* the tag, the timer and the sequencer as they are, and enters
\* lprf_phy_status_async.
C20_ReadCompleteClosesLoop ==
    [][last'.op = "__lprf_read_frame_complete" =>
            /\ Len(last'.acts) = 1
            /\ last'.acts[1] \in RxOutcomes
            /\ chain = <<"read">>
            /\ chain' = <<>>
            /\ transition_in_progress' = transition_in_progress - 1
            /\ transition_in_progress' = 0
            /\ is_active' = is_active + 1
            /\ poll_ret'["spi"] = is_active'
            /\ UNCHANGED <<tx_skb, tx_complete, free_skb, tx_written,
                           to_state, reset_counter, rx_polling_active,
                           timer>>]_vars

\* a frame read has completed whose data could not be delivered
C20_Witness ==
    /\ last.op = "__lprf_read_frame_complete"
    /\ last.acts = <<"alloc_failure">>
    /\ transition_in_progress = 0
    /\ poll_ret["spi"] # 0

\* the evaluation took the guard and no branch that starts an action matched
Rescheduled == Evaluated /\ last.acts[Len(last.acts)] = "reschedule"

\* C21 as stated: when no action branch matches, the guard is free when the
\* timer is started, and the interval is RX_POLLING_INTERVAL for every
\* status whose state is RECEIVING and RETRY_INTERVAL for every other.
C21_IntervalByState ==
    (Rescheduled /\ rx_polling_active # 0) =>
        /\ transition_in_progress = 0
        /\ arming = IF StateField(last.status) = 7
                    THEN "RX_POLLING_INTERVAL"
                    ELSE "RETRY_INTERVAL"

\* C21: when no action branch matches, the guard is free when the timer is
\* started, and the interval is RX_POLLING_INTERVAL for every status whose
\* state is RECEIVING with the FIFO empty and RETRY_INTERVAL for every
\* other, a RECEIVING chip with data in the FIFO among them.
C21_IntervalByStateAndFifo ==
    (Rescheduled /\ rx_polling_active # 0) =>
        /\ transition_in_progress = 0
        /\ arming = IF /\ StateField(last.status) = 7
                       /\ FifoEmptyBit(last.status) = 1
                    THEN "RX_POLLING_INTERVAL"
                    ELSE "RETRY_INTERVAL"

\* a RECEIVING chip with data in its FIFO was evaluated: the guard is free
\* and the timer is about to be started at the retry interval
C21_Witness ==
    /\ Rescheduled
    /\ StateField(last.status) = 7
    /\ FifoEmptyBit(last.status) = 0
    /\ transition_in_progress = 0
    /\ arming = "RETRY_INTERVAL"

\* C28: reversing the bit order twice gives the byte back, and one reversal
\* puts bit i of the byte at bit 7 - i, for every byte.
C28_ReverseInvolution ==
    codec.op = "reverse_bit_order" =>
        /\ reverse_bit_order(codec.res) = codec.arg
        /\ \A i \in 0 .. 7 : Bit(codec.res, 7 - i) = Bit(codec.arg, i)
        /\ codec.res \in Bytes

\* 0x01 has been reversed to 0x80
C28_Witness ==
    /\ codec.op = "reverse_bit_order"
    /\ codec.arg = 1
    /\ codec.res = 128

\* how many of the 8 bits of two bytes agree
EqualBits(x, y) == Cardinality({i \in 0 .. 7 : Bit(x, i) = Bit(y, i)})

IsFindSfd == codec.op = "find_SFD_and_shift_data"

\* the 8 bits that start n bits after the start of the byte at the place
\* of the delimiter
Window(n) ==
    LET hi == At(codec.arg.data, PREAMBLE_LENGTH - 1)
        lo == At(codec.arg.data, PREAMBLE_LENGTH)
    IN  ((hi * 256 + lo) \div (2 ^ (8 - n))) % 256

Sufficient(n) == EqualBits(Window(n), SFD) >= 7

LongEnough == codec.arg.data_length >= PREAMBLE_LENGTH + 1

\* C24: when a window matches at least 7 bits, the result is the first
\* sufficient alignment in the order 2 bits, 1 bit, none, for every pair of
\* bytes at the place of the delimiter.
C24_TwoBitFirst ==
    (IsFindSfd /\ LongEnough
        /\ (Sufficient(0) \/ Sufficient(1) \/ Sufficient(2))) =>
        codec.res.ret = IF Sufficient(2) THEN 6
                        ELSE IF Sufficient(1) THEN 7
                        ELSE 8

\* the window two bits late matches in 7 bits, not in 8
C24_Witness ==
    /\ IsFindSfd
    /\ codec.arg.kind = "pair"
    /\ EqualBits(Window(2), SFD) = 7
    /\ codec.res.ret = 6

IsReadFrame == codec.op = "__lprf_read_frame_complete"

\* C26: when no window matches at least 7 bits, and when the buffer is too
\* short to hold a delimiter, find_SFD_and_shift_data changes neither a
\* byte of the buffer nor the length, and returns 0 in the first case; a
\* buffer whose recovery did not return a shift is dropped by the caller.
C26_NotFoundUntouched ==
    /\ (IsFindSfd /\ LongEnough
            /\ ~(Sufficient(0) \/ Sufficient(1) \/ Sufficient(2))) =>
          /\ codec.res.ret = 0
          /\ codec.res.data = codec.arg.data
          /\ codec.res.data_length = codec.arg.data_length
    /\ (IsFindSfd /\ ~LongEnough) =>
          /\ codec.res.ret < 0
          /\ codec.res.data = codec.arg.data
          /\ codec.res.data_length = codec.arg.data_length
    /\ (IsReadFrame /\ codec.res.rx.sfd.ret \notin {6, 7, 8}) =>
          /\ codec.res.rx.outcome # "frame_delivered"
          /\ codec.res.rx.ret < 0
          /\ codec.res.rx.skb = <<>>
          /\ codec.res.rx.sfd.data = codec.res.corrected \o
                  <<codec.arg.rx_data[codec.arg.length + 1]>>

\* the byte at the place of the delimiter is its complement: nothing
\* matches, the buffer is as it was
C26_Witness ==
    /\ IsFindSfd
    /\ codec.arg.kind = "pair"
    /\ At(codec.arg.data, 3) = 26
    /\ codec.res.ret = 0
    /\ codec.res.data = codec.arg.data

IsStream == IsFindSfd /\ codec.arg.kind = "stream"

\* the recovery returned the shift of a stream that came late bits late,
\* the buffer starts with the payload, and the length is n less
Recovers(n) ==
    /\ codec.res.ret = 8 - codec.arg.late
    /\ SubSeq(codec.res.data, 1, Len(codec.arg.payload)) = codec.arg.payload
    /\ codec.res.data_length = codec.arg.data_length - n

\* C25 as stated: from a buffer [4 bytes of preamble][0xE5][payload], as
\* it is and 1 or 2 bits late, the recovery returns 8, 7 or 6, leaves the
\* payload at the start of the buffer and takes the bytes of the preamble
\* and the delimiter off the length.
C25_FourBytePreamble ==
    (IsStream /\ codec.arg.preamble = 4) => Recovers(5)

\* C25: from a buffer [3 bytes of preamble][0xE5][payload], which is what
\* is left of a preamble of 4 bytes, as it is and 1 or 2 bits late, the
\* recovery returns 8, 7 or 6, leaves the payload at the start of the
\* buffer and takes 4 bytes off the length.
C25_ThreeBytePreamble ==
    (IsStream /\ codec.arg.preamble = 3) => Recovers(4)

\* a payload of two bytes has been recovered from a stream 2 bits late
C25_Witness ==
    /\ IsStream
    /\ codec.arg.preamble = 3
    /\ codec.arg.late = 2
    /\ codec.arg.payload = <<229, 19>>
    /\ codec.res.ret = 6
    /\ SubSeq(codec.res.data, 1, 2) = <<229, 19>>

SfdFound == codec.res.rx.sfd.ret \in {6, 7, 8}

ValidLength(len) == len = 5 \/ (len >= 9 /\ len <= 127)

\* the buffer that the recovery of the delimiter left
Recovered_data ==
    SubSeq(codec.res.rx.sfd.data, 1, codec.res.rx.sfd.data_length)

\* C23: the first byte after the delimiter is the declared length, 127
\* takes its place when it is out of bounds; a length greater than the
\* number of bytes that follow the length byte drops the frame, any other
\* delivers exactly that many of the bytes that follow the length byte.
C23_LengthRule ==
    (IsReadFrame /\ SfdFound /\ codec.res.rx.sfd.data_length >= 1) =>
        LET declared == Recovered_data[1]
            len == IF ValidLength(declared) THEN declared ELSE 127
            available == Len(Recovered_data) - 1
        IN  IF len > available
            THEN /\ codec.res.rx.outcome = "length_too_large"
                 /\ codec.res.rx.skb = <<>>
            ELSE IF codec.arg.alloc_ok
            THEN /\ codec.res.rx.outcome = "frame_delivered"
                 /\ codec.res.rx.skb = SubSeq(Recovered_data, 2, len + 1)
            ELSE /\ codec.res.rx.outcome = "alloc_failure"
                 /\ codec.res.rx.skb = <<>>

IsLoopback == codec.op = "loopback"

Decoded(s) ==
    <<PHY_SM_STATUS(s), PHY_SM_ENABLE(s), PHY_FIFO_EMPTY(s), PHY_FIFO_FULL(s)>>

\* a status byte with bits 1..0 cleared
ClearLow(s) == s - (s % 4)

\* two evaluations end in the same driver state, the recorded byte aside
SameDecision(W1, W2) == W1 = [W2 EXCEPT !.status_seen = W1.status_seen]

\* C29: status-byte decoding.  Whenever a status read is about to complete,
\* for each of the 256 bytes it can deliver: the state is bits 7..5, enabled
\* is bit 4, fifo_empty is bit 3, fifo_full is bit 2, and bits 1..0 change
\* no decoded field and nothing of what the evaluation of the byte does.
C29_StatusDecoding ==
    SpiCompletes("phy") =>
        \A s \in StatusBytes :
            /\ PHY_SM_STATUS(s) = 4 * Bit(s, 7) + 2 * Bit(s, 6) + Bit(s, 5)
            /\ PHY_SM_ENABLE(s) = Bit(s, 4)
            /\ PHY_FIFO_EMPTY(s) = Bit(s, 3)
            /\ PHY_FIFO_FULL(s) = Bit(s, 2)
            /\ Decoded(s) = Decoded(ClearLow(s))
            /\ SameDecision(lprf_phy_status_complete(Completed, s),
                            lprf_phy_status_complete(Completed, ClearLow(s)))

\* a byte with state bits 7 and 6, fifo_full and both low bits set was
\* evaluated with the guard acquired
C29_Witness ==
    /\ Evaluated
    /\ last.status = 199
    /\ last.acts = <<"reschedule">>

IsSetChannel == codec.op = "lprf_set_ieee802154_channel"

\* C30: an out-of-range channel is rejected.  set_channel(0, c) with c
\* outside 11..26 returns an error and writes no PLL or VCO sub-register.
C30_OutOfRangeRejected ==
    (/\ IsSetChannel
     /\ codec.arg.page = 0
     /\ codec.arg.channel \notin 11 .. 26) =>
        /\ codec.res.ret < 0
        /\ codec.res.writes = <<>>

IsSetTxPower == codec.op = "lprf_set_tx_power"

\* the zero-based positions of a power in the supported table
IndexOf(power) ==
    {i \in 0 .. 15 : lprf_tx_powers[i + 1] = power}

\* C31: invalid page and unsupported power leave the chip untouched.
\* set_channel with page # 0 returns an error and writes nothing; the power
\* setter returns an error and writes nothing for a power that is not in
\* the supported table; for a supported power the one write it issues is
\* that of the index of the entry to SR_TX_PWR_CTRL.
C31_InvalidConfigUntouched ==
    /\ (IsSetChannel /\ codec.arg.page # 0) =>
          /\ codec.res.ret < 0
          /\ codec.res.writes = <<>>
    /\ (IsSetTxPower /\ IndexOf(codec.arg.power) = {}) =>
          /\ codec.res.ret < 0
          /\ codec.res.writes = <<>>
    /\ (IsSetTxPower /\ IndexOf(codec.arg.power) # {}) =>
          /\ \A k \in 1 .. Len(codec.res.writes) :
                /\ codec.res.writes[k].reg = "SR_TX_PWR_CTRL"
                /\ {codec.res.writes[k].of} = IndexOf(codec.arg.power)
          /\ codec.arg.write_ok =>
                /\ Len(codec.res.writes) = 1
                /\ codec.res.ret = 0

\* the power 1500 was set: index 15 went to SR_TX_PWR_CTRL
C31_Witness ==
    /\ IsSetTxPower
    /\ codec.arg.power = 1500
    /\ codec.res.ret = 0
    /\ codec.res.writes = <<SubregWrite("SR_TX_PWR_CTRL", "value", 15)>>

\* the published VCO tune values of the channels 11..26
VcoTable ==
    <<237, 235, 234, 232, 231, 223, 222, 220,
      213, 212, 210, 209, 207, 206, 206, 204>>

ValidChannel ==
    IsSetChannel /\ codec.arg.page = 0 /\ codec.arg.channel \in 11 .. 26

\* C32: channel mapping.  For every channel c in 11..26 the RF center
\* frequency is 2405 + 5 * (c - 11) MHz (2405 for 11, 2480 for 26), the
\* value written to SR_PLL_VCO_TUNE is the table entry of c and not zero,
\* and the call with all writes succeeding ends with that write and
\* returns 0: the outcome is fixed by (page, channel).
C32_ChannelMapping ==
    ValidChannel =>
        LET c == codec.arg.channel
            writes == codec.res.writes
        IN  /\ codec.res.rf_freq = 2405 + 5 * (c - 11)
            /\ c = 11 => codec.res.rf_freq = 2405
            /\ c = 26 => codec.res.rf_freq = 2480
            /\ \A k \in 1 .. Len(writes) :
                  writes[k].reg = "SR_PLL_VCO_TUNE" =>
                      /\ writes[k].of = VcoTable[c - 10]
                      /\ writes[k].of # 0
            /\ codec.arg.fail_at = 0 =>
                  /\ Len(writes) = 9
                  /\ writes[9].reg = "SR_PLL_VCO_TUNE"
                  /\ codec.res.ret = 0

\* channel 26 was set with every write succeeding
C32_Witness ==
    /\ ValidChannel
    /\ codec.arg.channel = 26
    /\ codec.arg.fail_at = 0
    /\ codec.res.rf_freq = 2480
    /\ codec.res.writes[9] = SubregWrite("SR_PLL_VCO_TUNE", "value", 204)

\* a value in two limbs fits 32 bits
Fits32(w) == w.hi >= 0 /\ w.hi < 65536 /\ w.lo >= 0 /\ w.lo < 65536

\* nothing in one computation of PLL values leaves 32 bits, the fractional
\* divisor is the exact quotient and fits 24 bits
PllInRange(pll) ==
    /\ pll.ret = 0
    /\ Fits32(pll.steps.rf_frequency)
    /\ Fits32(pll.steps.difference)
    /\ pll.steps.f_lo >= 0
    /\ pll.steps.f_lo \div 65536 < 65536
    /\ pll.steps.remainder \in 0 .. 16 * MHZ - 1
    /\ Fits32(pll.steps.product)
    /\ pll.frac_val = Scale228(pll.steps.remainder)
    /\ pll.frac_val \in 0 .. 16777215
    /\ pll.int_val \in 0 .. 255

\* C33: the PLL divisor arithmetic does not overflow.  For every channel in
\* 11..26 and both offsets (1 MHz for RX, 0 for TX) the frequency in Hz, the
\* difference, f_lo and (f_lo mod 16000000) * 228 stay below 2^32, and the
\* fractional divisor fits the 24 bits written as three bytes.
C33_PllNoOverflow ==
    ValidChannel => PllInRange(codec.res.rx) /\ PllInRange(codec.res.tx)

\* channel 26 was set: the largest frequency, in Hz above 2^31, and the
\* fractional divisor went out in bytes
C33_Witness ==
    /\ ValidChannel
    /\ codec.arg.channel = 26
    /\ codec.arg.fail_at = 0
    /\ codec.res.tx.steps.rf_frequency.hi >= 32768
    /\ \E k \in 1 .. 9 : codec.res.writes[k].byte = "BIT24_H_BYTE"

\* a TX transition has been started for the pending frame: it is under way
\* or the frame has been copied into a frame write
TxUnderWay == Count(chain, "TX") > 0 \/ tx_written

\* this step starts a TX transition
TxStarts == Count(chain', "TX") > Count(chain, "TX")

\* this step dispatches a frame write
FrameWriteStarts ==
    /\ Len(wr_log') = Len(wr_log) + 1
    /\ wr_log'[Len(wr_log')][1] = "FRMW"

\* C35: a frame is written to the chip at most once per accepted
\* submission.  Between the acceptance of a pending frame and its
\* finalization at most one TX transition is started and at most one frame
\* write is dispatched for it, whatever status bytes come in between: a TX
\* transition starts only when none was started for the pending frame, and
\* a frame write only when the frame has not been written.
C35_FrameWrittenOnce ==
    /\ [][TxStarts => ~TxUnderWay]_vars
    /\ [][FrameWriteStarts => ~tx_written]_vars

\* C36: flag implies frame.  The transmission-complete flag is set only
\* while a pending frame exists; a frame write is dispatched and a
\* finalization is executed only with a pending frame; and the pending
\* frame is taken out of its slot only by an evaluation that holds the
\* transition guard.
C36_FlagImpliesFrame ==
    /\ [](/\ tx_complete => tx_skb # NULL
          /\ (IsEvaluate /\ Finalizes) => last.skb_in # NULL)
    /\ [][FrameWriteStarts => tx_skb # NULL /\ tx_skb' # NULL]_vars
    /\ [][(tx_skb # NULL /\ tx_skb' = NULL) =>
            /\ last'.op = "lprf_phy_status_complete"
            /\ last'.acquired
            /\ transition_in_progress = 0]_vars

\* an evaluation holding the guard has finalized the pending frame
C36_Witness ==
    /\ Evaluated
    /\ Finalizes
    /\ last.skb_in # NULL
    /\ last.flag_in
    /\ tx_skb = NULL
    /\ ~tx_complete

\* C37: delivered frames stay inside the received data.  Whenever a frame
\* of declared length n is delivered, the n bytes copied, those at the
\* indices 1 .. n behind the length byte at index 0, lie below the logical
\* length that the recovery of the delimiter left.
C37_DeliveredInsideData ==
    (IsReadFrame /\ codec.res.rx.outcome = "frame_delivered") =>
        /\ Len(codec.res.rx.skb) = codec.res.rx.frame_length
        /\ \A k \in 1 .. codec.res.rx.frame_length :
              k < codec.res.rx.sfd.data_length

\* an RX or TX sequence was cut short by a dispatch failure and the
\* recovery has run to its end
SequenceAborted ==
    Recovered /\ Count(chain, "RX") + Count(chain, "TX") > 0

\* C38: a sequence aborted by a dispatch failure leaves the sequencer
\* reusable.  After a register write of a step failed to dispatch and the
\* recovery has run, the step counter is 0.
C38_SequencerReusable ==
    SequenceAborted => reset_counter = 0

\* how often the handler that ran last entered lprf_async_error
ErrorEntries == Count(last.acts, "lprf_async_error")

\* C39: the recovery terminates.  Handling one dispatch failure takes a
\* bounded number of steps even if the register writes of the recovery fail
\* to dispatch as well: however long the SPI core keeps failing, a handler
\* enters lprf_async_error fewer times than the MaxBurst calls that fail.
C39_RecoveryBounded ==
    ErrorEntries < MaxBurst


\* the writes of a sequence so far are its first steps, each once, in order
StepsInOrder ==
    /\ chain = <<"RX">> => IsPrefix(wr_log, RxWrites)
    /\ chain = <<"TX">> => IsTxLog(wr_log)

\* C34: also when the completion callback of a step's write runs before the
\* invocation that dispatched the write has advanced or reset the step
\* counter, each of the steps 0..5 is issued exactly once per sequence, in
\* order, and the counter stays within 0..5.
C34_EarlyCompletionRobust ==
    /\ reset_counter \in 0 .. 5
    /\ StepsInOrder

====
